---- MODULE Spec2Model ----
(***************************************************************************)
(* The paper-trade execution loop of btc-alerts (src/paper_exec.py): the   *)
(* per-trade fill / stop / take-profit state machine of main() and the     *)
(* equity ledger it credits.                                               *)
(*                                                                         *)
(* Numbers.  The program computes in floats; the model computes in exact   *)
(* integers.  A price p is p steps of the 4-decimal price grid to which    *)
(* plan_from_event and apply_be_move round (float(f"{x:.4f}")); a quantity *)
(* q is q steps of the quantity grid.  PnL is price steps times quantity   *)
(* steps.  Fractions (TP1_CLOSE_FRAC, BE_BUFFER_PCT) are records           *)
(* [n |-> numerator, d |-> denominator].  pnl_pct_equity, a quotient, is   *)
(* kept as the record [n |-> 100 * pnl, d |-> equity].                     *)
(*                                                                         *)
(* A timestamp is an integer number of clock steps; "" is <<>> and an      *)
(* ISO timestamp t is <<t>>.                                               *)
(***************************************************************************)
EXTENDS Integers, Sequences, FiniteSets, TLC

VARIABLES
    TP1_CLOSE_FRAC,        \* paper_exec.py:34, read from the environment once
    MOVE_SL_TO_BE_ON_TP1,  \* paper_exec.py:35
    STOP_FILL_MODE,        \* paper_exec.py:38
    BE_BUFFER_PCT,         \* paper_exec.py:43
    open_trades,           \* main(): trade_id -> trade dict (st["open_trades"])
    equity,                \* main(): the running equity scalar
    px_map,                \* main(): symbol -> last price fetched in this pass
    todo,                  \* main(): what is left of list(open_trades.items())
    pc,                    \* main(): position in the body of `while True`
    now,                   \* the wall clock (datetime.now())
    out_rows,              \* rows appended to OUT_JSONL / OUT_CSV
    state_file,            \* what save_state last wrote to STATE_FILE
    hist,                  \* history: prices each trade was ticked with
    born,                  \* history: "PENDING" or "FILLED", the trade at start
    ENTRY_PRICE_MODE,      \* paper_exec.py:29
    signals,               \* the lines of SIGNALS_FILE (alerts.py appends them)
    offset,                \* main(): st["offset"], the read cursor, in lines
    dedup,                 \* main(): st["dedup"], the recently seen event keys
    evts,                  \* main(): what is left of the batch read_signals_tail returned
    tmp_file,              \* save_json: STATE_FILE + ".tmp"
    source,                \* the events the signal loop may append in this run
    evicted,               \* history: keys dedup_accept has trimmed off st["dedup"]
    restarts,              \* history: how many times the process was restarted
    OI_CONTRA_FILTER,      \* alerts.py:73
    OI_CONTRA_MIN_ABS,     \* alerts.py:74
    WATCH_ALT_BTC,         \* alerts.py:77
    last_setup_ts,         \* alerts.py main(): "SYMBOL:key" -> time of the last signal
    alerts_file,           \* the file at STATE_PATH of alerts.py
    apc,                   \* alerts.py main(): position in the body of `while True`
    cyc,                   \* alerts.py main(): regime_key, oi15m and now of the cycle
    alt_todo,              \* alerts.py main(): what is left of SETUP_SYMBOLS
    fetched,               \* alerts.py main(): what the last scan fetched
    sent,                  \* the signals the last scan sent
    last_emit,             \* history: "SYMBOL:key" -> time and run of the last signal
    cycles,                \* history: how many cycles the signal loop has made
    appended,              \* the lines the last scan appended to SIGNALS_FILE
    inp,                   \* a function called on its own: its name and arguments
    outp                   \* a function called on its own: what it returned

\* The variables of step 1 of the loop (ingest) and of save_json.
ingest == <<ENTRY_PRICE_MODE, signals, offset, dedup, evts, tmp_file, source,
            evicted, restarts>>

\* The variables of the signal loop, alerts.py.
alerts == <<OI_CONTRA_FILTER, OI_CONTRA_MIN_ABS, WATCH_ALT_BTC, last_setup_ts,
            alerts_file, apc, cyc, alt_todo, fetched, sent, last_emit, cycles,
            appended>>

\* The variables of a call of one function outside the two loops.
calls == <<inp, outp>>

\* What the per-trade state machine (step 2 of the loop) leaves alone.
others == <<ingest, alerts, calls>>

vars == <<TP1_CLOSE_FRAC, MOVE_SL_TO_BE_ON_TP1, STOP_FILL_MODE, BE_BUFFER_PCT,
          open_trades, equity, px_map, todo, pc, now, out_rows, state_file,
          hist, born, others>>

config == <<TP1_CLOSE_FRAC, MOVE_SL_TO_BE_ON_TP1, STOP_FILL_MODE, BE_BUFFER_PCT>>

----------------------------------------------------------------------------
(* Bounds of the model *)

\* The clock stops advancing MaxAge steps after the live trade was created.
MaxAge == 3

\* hist keeps at most MaxHist prices per trade; a longer history is Overflow.
MaxHist == 3

----------------------------------------------------------------------------
(* Program constants *)

START_EQUITY == 1000

\* PAPER_ENTRY_TIMEOUT_SEC, in clock steps.
ENTRY_TIMEOUT_SEC == 2

\* open_trades holds two trades of one symbol: trade 1, an earlier trade that
\* has ended (the dict keeps ended trades), and trade 2, the live one.
TradeIds == {1, 2}

SymbolOf(id) == "BTC/USDT:USDT"

\* Last prices the exchange may report (finite and positive).
Prices == {94, 100, 103, 108}

Fractions == {[n |-> 1, d |-> 2], [n |-> 1, d |-> 1], [n |-> 3, d |-> 2]}

Buffers == {[n |-> 0, d |-> 1], [n |-> 1, d |-> 11]}

StopFillModes == {"CAP", "MARKET"}

\* The history of a trade that is not known, or longer than MaxHist.
Overflow == <<0>>

----------------------------------------------------------------------------
(* Helpers *)

Min(a, b) == IF a <= b THEN a ELSE b

Max(a, b) == IF a >= b THEN a ELSE b

\* float(f"{n/d:.4f}") on the price grid: the grid point nearest to n/d
\* (n >= 0, d > 0).
Round4(n, d) == (2 * n + d) \div (2 * d)

\* The levels of a planned trade, as plan_from_event stores them.
Geometries ==
    { [side |-> "LONG",  entry |-> 100, sl |-> 95,  tp1 |-> 103, tp2 |-> 108, qty |-> 10],
      [side |-> "SHORT", entry |-> 103, sl |-> 107, tp1 |-> 100, tp2 |-> 95,  qty |-> 10] }

\* The Trade of lines 220-245 built as already filled at its entry.
PlannedTrade_Filled(id, g, t) ==
    [ symbol |-> SymbolOf(id), side |-> g.side, status |-> "OPEN",
      entry |-> g.entry, sl |-> g.sl, tp1 |-> g.tp1, tp2 |-> g.tp2, qty |-> g.qty,
      filled_entry |-> g.entry, filled_qty |-> g.qty,
      tp1_hit |-> FALSE, tp1_qty_closed |-> 0,
      pnl_usdt |-> 0, pnl_pct_equity |-> [n |-> 0, d |-> 1],
      close_reason |-> "", ts_created |-> t, ts_closed |-> <<>> ]

\* The Trade plan_from_event returns.  Fields no step of the loop reads or
\* writes (trade_id, exchange, market, symbol_raw, setup, regime, leverage:
\* pnl_for_move ignores it) are left out; close_reason "ENTRY_TIMEOUT" stands
\* for f"ENTRY_TIMEOUT_{ENTRY_TIMEOUT_SEC}s".
PlannedTrade(id, g, t) ==
    [ symbol |-> SymbolOf(id), side |-> g.side, status |-> "OPEN",
      entry |-> g.entry, sl |-> g.sl, tp1 |-> g.tp1, tp2 |-> g.tp2, qty |-> g.qty,
      filled_entry |-> 0, filled_qty |-> 0,
      tp1_hit |-> FALSE, tp1_qty_closed |-> 0,
      pnl_usdt |-> 0, pnl_pct_equity |-> [n |-> 0, d |-> 1],
      close_reason |-> "", ts_created |-> t, ts_closed |-> <<>> ]

pnl_for_move(side, entry, exit_px, qty) ==
    IF qty <= 0 THEN 0
    ELSE IF side = "LONG" THEN (exit_px - entry) * qty
    ELSE (entry - exit_px) * qty

should_fill_entry(side, entry, px) ==
    IF side = "LONG" THEN px <= entry ELSE px >= entry

stop_triggered(side, sl, px) ==
    IF side = "LONG" THEN px <= sl ELSE px >= sl

tp1_triggered(side, tp1, px) ==
    IF side = "LONG" THEN px >= tp1 ELSE px <= tp1

tp2_triggered(side, tp2, px) ==
    IF side = "LONG" THEN px >= tp2 ELSE px <= tp2

\* apply_be_move moving the stop to the entry without the buffer.
apply_be_move_NoBuffer(tr) ==
    IF ~MOVE_SL_TO_BE_ON_TP1 THEN tr
    ELSE IF tr.filled_qty <= 0 THEN tr
    ELSE [tr EXCEPT !.sl = tr.filled_entry]

apply_be_move(tr) ==
    IF ~MOVE_SL_TO_BE_ON_TP1 THEN tr
    ELSE IF tr.filled_qty <= 0 THEN tr
    ELSE IF tr.side = "LONG"
         THEN [tr EXCEPT !.sl = Round4(tr.filled_entry * (BE_BUFFER_PCT.d + BE_BUFFER_PCT.n),
                                       BE_BUFFER_PCT.d)]
         ELSE [tr EXCEPT !.sl = Round4(tr.filled_entry * (BE_BUFFER_PCT.d - BE_BUFFER_PCT.n),
                                       BE_BUFFER_PCT.d)]

\* stop_fill_price that fills at the last price in either mode.
stop_fill_price_AlwaysMarket(tr, px) == px

stop_fill_price(tr, px) ==
    IF STOP_FILL_MODE = "MARKET" THEN px ELSE tr.sl

\* (tr.pnl_usdt / equity) * 100.0 if equity > 0 else 0.0
PnlPct(pnl, eq) == IF eq > 0 THEN [n |-> 100 * pnl, d |-> eq] ELSE [n |-> 0, d |-> 1]

----------------------------------------------------------------------------
(* One pass of main()'s loop over a trade: paper_exec.py:429-547.           *)
(* Each step returns the local Trade object `tr` as it is when the loop    *)
(* body ends, the equity, whether the body assigned open_trades[trade_id]  *)
(* (store), and whether it appended a row to the trade log and table.      *)

Outcome(tr, eq, store, row) == [tr |-> tr, equity |-> eq, store |-> store, row |-> row]

\* now_iso()
now_iso(t) == <<t>>

\* EntryStep with the timeout test `age > ENTRY_TIMEOUT_SEC`.
EntryStep_LateTimeout(tr, px, eq, t) ==
    IF should_fill_entry(tr.side, tr.entry, px)
    THEN Outcome([tr EXCEPT !.filled_entry = tr.entry, !.filled_qty = tr.qty],
                 eq, FALSE, FALSE)
    ELSE IF t - tr.ts_created > ENTRY_TIMEOUT_SEC
         THEN Outcome([tr EXCEPT !.status = "CANCELED",
                                 !.ts_closed = now_iso(t),
                                 !.close_reason = "ENTRY_TIMEOUT",
                                 !.pnl_usdt = 0,
                                 !.pnl_pct_equity = [n |-> 0, d |-> 1]],
                      eq, TRUE, TRUE)
         ELSE Outcome(tr, eq, TRUE, FALSE)

\* ENTRY fill, lines 444-466.  The fill branch changes the local object and
\* reaches `continue` without assigning open_trades[trade_id].
EntryStep(tr, px, eq, t) ==
    IF should_fill_entry(tr.side, tr.entry, px)
    THEN Outcome([tr EXCEPT !.filled_entry = tr.entry, !.filled_qty = tr.qty],
                 eq, FALSE, FALSE)
    ELSE IF t - tr.ts_created >= ENTRY_TIMEOUT_SEC
         THEN Outcome([tr EXCEPT !.status = "CANCELED",
                                 !.ts_closed = now_iso(t),
                                 !.close_reason = "ENTRY_TIMEOUT",
                                 !.pnl_usdt = 0,
                                 !.pnl_pct_equity = [n |-> 0, d |-> 1]],
                      eq, TRUE, TRUE)
         ELSE Outcome(tr, eq, TRUE, FALSE)

\* StopStep without the write_jsonl and append_csv of lines 483-484.
StopStep_NoRow(tr, px, eq, t) ==
    LET exit_px == stop_fill_price(tr, px)
        pnl     == pnl_for_move(tr.side, tr.filled_entry, exit_px, tr.filled_qty)
        total   == tr.pnl_usdt + pnl
    IN  Outcome([tr EXCEPT !.pnl_usdt = total,
                           !.status = "CLOSED",
                           !.ts_closed = now_iso(t),
                           !.close_reason = "SL",
                           !.pnl_pct_equity = PnlPct(total, eq)],
                eq + total, TRUE, FALSE)

\* SL, lines 470-488.
StopStep(tr, px, eq, t) ==
    LET exit_px == stop_fill_price(tr, px)
        pnl     == pnl_for_move(tr.side, tr.filled_entry, exit_px, tr.filled_qty)
        total   == tr.pnl_usdt + pnl
    IN  Outcome([tr EXCEPT !.pnl_usdt = total,
                           !.status = "CLOSED",
                           !.ts_closed = now_iso(t),
                           !.close_reason = "SL",
                           !.pnl_pct_equity = PnlPct(total, eq)],
                eq + total, TRUE, TRUE)

\* Tp1Step without the clamp of line 492.
Tp1Step_NoClamp(tr, px, eq, t) ==
    LET qty_close == (tr.filled_qty * TP1_CLOSE_FRAC.n) \div TP1_CLOSE_FRAC.d
        pnl_add   == pnl_for_move(tr.side, tr.filled_entry, tr.tp1, qty_close)
        total     == tr.pnl_usdt + pnl_add
        part      == apply_be_move([tr EXCEPT !.pnl_usdt = total,
                                              !.filled_qty = tr.filled_qty - qty_close,
                                              !.tp1_hit = TRUE,
                                              !.tp1_qty_closed = tr.tp1_qty_closed + qty_close])
    IN  IF part.filled_qty <= 0
        THEN Outcome([part EXCEPT !.status = "CLOSED",
                                  !.ts_closed = now_iso(t),
                                  !.close_reason = "TP1_FULL",
                                  !.pnl_pct_equity = PnlPct(total, eq)],
                     eq + total, TRUE, TRUE)
        ELSE Outcome(part, eq, TRUE, FALSE)

\* Tp1Step crediting the equity with the increment of a partial close.
Tp1Step_CreditsPartial(tr, px, eq, t) ==
    LET qty_close == Max(0, Min((tr.filled_qty * TP1_CLOSE_FRAC.n) \div TP1_CLOSE_FRAC.d,
                                tr.filled_qty))
        pnl_add   == pnl_for_move(tr.side, tr.filled_entry, tr.tp1, qty_close)
        total     == tr.pnl_usdt + pnl_add
        part      == apply_be_move([tr EXCEPT !.pnl_usdt = total,
                                              !.filled_qty = tr.filled_qty - qty_close,
                                              !.tp1_hit = TRUE,
                                              !.tp1_qty_closed = tr.tp1_qty_closed + qty_close])
    IN  IF part.filled_qty <= 0
        THEN Outcome([part EXCEPT !.status = "CLOSED",
                                  !.ts_closed = now_iso(t),
                                  !.close_reason = "TP1_FULL",
                                  !.pnl_pct_equity = PnlPct(total, eq)],
                     eq + total, TRUE, TRUE)
        ELSE Outcome(part, eq + pnl_add, TRUE, FALSE)

\* Tp1Step without the full-close branch of lines 507-520.
Tp1Step_NeverFull(tr, px, eq, t) ==
    LET qty_close == Max(0, Min((tr.filled_qty * TP1_CLOSE_FRAC.n) \div TP1_CLOSE_FRAC.d,
                                tr.filled_qty))
        pnl_add   == pnl_for_move(tr.side, tr.filled_entry, tr.tp1, qty_close)
        total     == tr.pnl_usdt + pnl_add
        part      == apply_be_move([tr EXCEPT !.pnl_usdt = total,
                                              !.filled_qty = tr.filled_qty - qty_close,
                                              !.tp1_hit = TRUE,
                                              !.tp1_qty_closed = tr.tp1_qty_closed + qty_close])
    IN  Outcome(part, eq, TRUE, FALSE)

\* TP1, lines 490-523.  filled_qty * TP1_CLOSE_FRAC is exact on the
\* quantities of the model.
Tp1Step(tr, px, eq, t) ==
    LET qty_close == Max(0, Min((tr.filled_qty * TP1_CLOSE_FRAC.n) \div TP1_CLOSE_FRAC.d,
                                tr.filled_qty))
        pnl_add   == pnl_for_move(tr.side, tr.filled_entry, tr.tp1, qty_close)
        total     == tr.pnl_usdt + pnl_add
        part      == apply_be_move([tr EXCEPT !.pnl_usdt = total,
                                              !.filled_qty = tr.filled_qty - qty_close,
                                              !.tp1_hit = TRUE,
                                              !.tp1_qty_closed = tr.tp1_qty_closed + qty_close])
    IN  IF part.filled_qty <= 0
        THEN Outcome([part EXCEPT !.status = "CLOSED",
                                  !.ts_closed = now_iso(t),
                                  !.close_reason = "TP1_FULL",
                                  !.pnl_pct_equity = PnlPct(total, eq)],
                     eq + total, TRUE, TRUE)
        ELSE Outcome(part, eq, TRUE, FALSE)

\* TP2, lines 525-544.
Tp2Step(tr, px, eq, t) ==
    LET pnl_add == pnl_for_move(tr.side, tr.filled_entry, tr.tp2, tr.filled_qty)
        total   == tr.pnl_usdt + pnl_add
    IN  Outcome([tr EXCEPT !.pnl_usdt = total,
                           !.filled_qty = 0,
                           !.status = "CLOSED",
                           !.ts_closed = now_iso(t),
                           !.close_reason = "TP2",
                           !.pnl_pct_equity = PnlPct(total, eq)],
                eq + total, TRUE, TRUE)

\* TickOutcome with the take-profit checks moved before the stop check.
TickOutcome_TargetsFirst(tr, px, eq, t) ==
    IF tr.filled_qty <= 0 THEN EntryStep(tr, px, eq, t)
    ELSE IF (~tr.tp1_hit) /\ tp1_triggered(tr.side, tr.tp1, px) THEN Tp1Step(tr, px, eq, t)
    ELSE IF tp2_triggered(tr.side, tr.tp2, px) THEN Tp2Step(tr, px, eq, t)
    ELSE IF stop_triggered(tr.side, tr.sl, px) THEN StopStep(tr, px, eq, t)
    ELSE Outcome(tr, eq, TRUE, FALSE)

\* TickOutcome without the tp1_hit guard of line 491.
TickOutcome_NoHitGuard(tr, px, eq, t) ==
    IF tr.filled_qty <= 0 THEN EntryStep(tr, px, eq, t)
    ELSE IF stop_triggered(tr.side, tr.sl, px) THEN StopStep(tr, px, eq, t)
    ELSE IF tp1_triggered(tr.side, tr.tp1, px) THEN Tp1Step(tr, px, eq, t)
    ELSE IF tp2_triggered(tr.side, tr.tp2, px) THEN Tp2Step(tr, px, eq, t)
    ELSE Outcome(tr, eq, TRUE, FALSE)

\* The body of `for trade_id, raw in list(open_trades.items())` for a trade
\* with status OPEN and a price, lines 438-547.
\* TickOutcome that tests TP2 before TP1.
TickOutcome_Tp2First(tr, px, eq, t) ==
    IF tr.filled_qty <= 0 THEN EntryStep(tr, px, eq, t)
    ELSE IF stop_triggered(tr.side, tr.sl, px) THEN StopStep(tr, px, eq, t)
    ELSE IF tp2_triggered(tr.side, tr.tp2, px) THEN Tp2Step(tr, px, eq, t)
    ELSE IF (~tr.tp1_hit) /\ tp1_triggered(tr.side, tr.tp1, px) THEN Tp1Step(tr, px, eq, t)
    ELSE Outcome(tr, eq, TRUE, FALSE)

TickOutcome(tr, px, eq, t) ==
    IF tr.filled_qty <= 0 THEN EntryStep(tr, px, eq, t)
    ELSE IF stop_triggered(tr.side, tr.sl, px) THEN StopStep(tr, px, eq, t)
    ELSE IF (~tr.tp1_hit) /\ tp1_triggered(tr.side, tr.tp1, px) THEN Tp1Step(tr, px, eq, t)
    ELSE IF tp2_triggered(tr.side, tr.tp2, px) THEN Tp2Step(tr, px, eq, t)
    ELSE Outcome(tr, eq, TRUE, FALSE)

\* Ticked without the status test of line 430.
Ticked_IgnoresStatus(id) ==
    open_trades[id].symbol \in DOMAIN px_map

\* The trade is read by the loop: status OPEN and a price for its symbol
\* (lines 430-436).
Ticked(id) ==
    /\ open_trades[id].status = "OPEN"
    /\ open_trades[id].symbol \in DOMAIN px_map

Record(h, px) == IF h = Overflow \/ Len(h) >= MaxHist THEN Overflow ELSE Append(h, px)

\* The ids of open_trades in dict order.
RECURSIVE IdList(_)
IdList(S) == IF S = {} THEN <<>>
             ELSE LET m == CHOOSE x \in S : \A y \in S : x <= y
                  IN  <<m>> \o IdList(S \ {m})

----------------------------------------------------------------------------
(* Planning: plan_from_event, paper_exec.py:149-246.                       *)
(*                                                                         *)
(* Zone bounds of an event are whole steps of the price grid.  The levels  *)
(* the planner computes before it rounds them are kept in thousandths of a *)
(* step (Milli), which holds every factor of the code exactly: 1.5, 0.35,  *)
(* 0.6, 1.2, 1.001, 0.999.  Equity is in units of price step x quantity    *)
(* step, so risk_usdt / per_unit_risk is a number of quantity steps.       *)

Milli == 1000

\* PAPER_RISK_PCT, 0.005.
RISK_PCT == [n |-> 1, d |-> 200]

DEFAULT_LEVERAGE == 5

MAX_OPEN_TRADES_PER_SYMBOL == 1

\* PAPER_DEDUP_WINDOW, in keys.
DEDUP_WINDOW == 2

\* The floor 0.5 of the stop padding (line 187), in price steps.
PadFloor == 5000

Abs(x) == IF x < 0 THEN 0 - x ELSE x

\* float(f"{n/d:.6f}") on the quantity grid (line 216), n >= 0, d > 0.
Round6(n, d) == (2 * n + d) \div (2 * d)

\* What plan_from_event returns for a candidate it discards.
None == [none |-> TRUE]

\* Line 174: "SHORT" in setup.upper(), on the setups of this model.
IsShort(setup) == setup \in {"MEAN_REVERT_UPPER_TOUCH_SHORT", "SWEEP_RECLAIM_SHORT"}

\* Line 218: setup[:16].
Setup16(setup) ==
    IF setup = "MEAN_REVERT_LOWER_TOUCH_LONG" THEN "MEAN_REVERT_LOWE"
    ELSE IF setup = "MEAN_REVERT_UPPER_TOUCH_SHORT" THEN "MEAN_REVERT_UPPE"
    ELSE setup

\* Lines 173-207: side, and entry, stop, targets and per-unit risk before
\* rounding, in thousandths of a step.  max(1e-9, height) of lines 185-186 is
\* Max(0, height) here: 1.5e-9 lies below the floor 0.5 of the padding.
PlanLevels(evt) ==
    LET side     == IF IsShort(evt.setup) THEN "SHORT" ELSE "LONG"
        lower_lo == evt.lower[1]
        lower_hi == evt.lower[2]
        upper_lo == evt.upper[1]
        upper_hi == evt.upper[2]
        entry    == IF ENTRY_PRICE_MODE = "LOHI"
                    THEN (IF side = "LONG" THEN lower_lo ELSE upper_hi)
                    ELSE (IF side = "LONG" THEN lower_hi ELSE upper_lo)
        e        == Milli * entry
        zone_h   == Max(0, lower_hi - lower_lo)
        zone_u   == Max(0, upper_hi - upper_lo)
        pad      == Max(Milli * PadFloor, 1500 * (IF side = "LONG" THEN zone_h ELSE zone_u))
        sl       == IF side = "LONG" THEN Milli * lower_lo - pad ELSE Milli * upper_hi + pad
        risk     == Abs(e - sl)
        tp1_zone == IF side = "LONG"
                    THEN Min(Milli * upper_lo, e + 350 * (upper_lo - entry))
                    ELSE Max(Milli * lower_hi, e - 350 * (entry - lower_hi))
        tp2_zone == IF side = "LONG" THEN Milli * upper_lo ELSE Milli * lower_hi
        tp2      == IF side = "LONG"
                    THEN (IF tp2_zone <= e THEN Max(1001 * entry, e + (12 * risk) \div 10)
                          ELSE tp2_zone)
                    ELSE (IF tp2_zone >= e THEN Min(999 * entry, e - (12 * risk) \div 10)
                          ELSE tp2_zone)
        tp1      == IF side = "LONG"
                    THEN (IF tp1_zone <= e THEN e + (6 * risk) \div 10 ELSE tp1_zone)
                    ELSE (IF tp1_zone >= e THEN e - (6 * risk) \div 10 ELSE tp1_zone)
    IN  [side |-> side, entry |-> e, sl |-> sl, tp1 |-> tp1, tp2 |-> tp2, risk |-> risk,
         tp1_zone |-> tp1_zone, tp2_zone |-> tp2_zone]

\* Lines 210-211: qty before rounding, as a fraction of quantity steps; risk is
\* a whole number of half steps (500 thousandths).
RawQty(eq, risk, leverage) ==
    [n |-> Max(0, eq * RISK_PCT.n) * leverage * 2, d |-> RISK_PCT.d * (risk \div 500)]

\* Line 343.
dedup_key(evt) == <<evt.ts, evt.symbol_raw, evt.setup>>

\* plan_from_event at clock t.  The events of this model carry two-element
\* zone lists of numbers; `key`, the dedup key of the event, is history (the
\* Trade keeps symbol_raw and setup but not the event's ts).
plan_from_event(evt, eq, leverage, t) ==
    LET L == PlanLevels(evt)
        q == RawQty(eq, L.risk, leverage)
        g == [side |-> L.side, entry |-> Round4(L.entry, Milli), sl |-> Round4(L.sl, Milli),
              tp1 |-> Round4(L.tp1, Milli), tp2 |-> Round4(L.tp2, Milli),
              qty |-> Round6(q.n, q.d)]
    IN  IF evt.symbol = "" \/ evt.close <= 0 THEN None
        ELSE IF L.risk <= 0 THEN None
        ELSE IF q.n <= 0 THEN None
        ELSE [symbol |-> evt.symbol, symbol_raw |-> evt.symbol_raw, setup |-> evt.setup,
              trade_id |-> <<t, evt.symbol_raw, Setup16(evt.setup)>>,
              key |-> dedup_key(evt)] @@ PlannedTrade(0, g, t)

\* dedup_accept that never finds the key in the list.
dedup_accept_NoCheck(arr, evt) ==
    LET a == Append(arr, dedup_key(evt))
    IN  [accept |-> TRUE,
         dedup  |-> IF Len(a) > DEDUP_WINDOW
                    THEN SubSeq(a, Len(a) - DEDUP_WINDOW + 1, Len(a)) ELSE a]

\* dedup_accept that trims the list to its first DEDUP_WINDOW keys.
dedup_accept_KeepOldest(arr, evt) ==
    LET key == dedup_key(evt)
        a   == Append(arr, key)
    IN  IF \E i \in DOMAIN arr : arr[i] = key
        THEN [accept |-> FALSE, dedup |-> arr]
        ELSE [accept |-> TRUE,
              dedup  |-> IF Len(a) > DEDUP_WINDOW THEN SubSeq(a, 1, DEDUP_WINDOW) ELSE a]

\* Lines 345-356: the answer, and st["dedup"] after the call.
dedup_accept(arr, evt) ==
    LET key == dedup_key(evt)
        a   == Append(arr, key)
    IN  IF \E i \in DOMAIN arr : arr[i] = key
        THEN [accept |-> FALSE, dedup |-> arr]
        ELSE [accept |-> TRUE,
              dedup  |-> IF Len(a) > DEDUP_WINDOW
                         THEN SubSeq(a, Len(a) - DEDUP_WINDOW + 1, Len(a)) ELSE a]

\* A file that does not exist, and a file whose write was cut short.
NoFile == [absent |-> TRUE]

Torn == [torn |-> TRUE]

\* The dict main() persists (lines 391, 355, 550-551); `evicted` is history.
Snapshot == [offset |-> offset, equity |-> equity, open_trades |-> open_trades,
             dedup |-> dedup, evicted |-> evicted]

\* Lines 309-317 over load_json (lines 65-70): an unreadable file is {}.
load_state(file) ==
    IF file \in {NoFile, Torn}
    THEN [offset |-> 0, equity |-> START_EQUITY, open_trades |-> <<>>,
          dedup |-> <<>>, evicted |-> {}]
    ELSE file

\* No signal file, nothing read, nothing planned.
NoIngest ==
    /\ ENTRY_PRICE_MODE = "ZONE"
    /\ signals = <<>>
    /\ offset = 0
    /\ dedup = <<>>
    /\ evts = <<>>
    /\ tmp_file = NoFile
    /\ source = {}
    /\ evicted = {}
    /\ restarts = 0

\* The signal loop is not running.
NoAlerts ==
    /\ OI_CONTRA_FILTER = TRUE
    /\ OI_CONTRA_MIN_ABS = 250
    /\ WATCH_ALT_BTC = {}
    /\ last_setup_ts = <<>>
    /\ alerts_file = NoFile
    /\ apc = "off"
    /\ cyc = <<>>
    /\ alt_todo = <<>>
    /\ fetched = <<>>
    /\ sent = {}
    /\ last_emit = <<>>
    /\ cycles = 0
    /\ appended = <<>>

\* No function is being called on its own.
NoCalls ==
    /\ inp = <<>>
    /\ outp = <<>>

----------------------------------------------------------------------------
(* The state after load_state(): paper_exec.py:370-385.  open_trades is    *)
(* what the state file held: trades as plan_from_event stores them         *)
(* (born "PENDING"), or trades a state file records as filled (born        *)
(* "FILLED").  No signal event is unread in this specification, so step 1  *)
(* of the loop (lines 388-412) plans nothing.                              *)

InitTrade(id, g, b, t) ==
    IF b = "FILLED"
    THEN [PlannedTrade(id, g, t) EXCEPT !.filled_entry = g.entry, !.filled_qty = g.qty]
    ELSE PlannedTrade(id, g, t)

\* Trade 1: planned at time 0, never touched, cancelled at the entry timeout.
EarlierTrade ==
    LET g == CHOOSE x \in Geometries : x.side = "LONG"
    IN  EntryStep(PlannedTrade(1, g, 0), g.tp1, START_EQUITY, ENTRY_TIMEOUT_SEC).tr

Init ==
    /\ TP1_CLOSE_FRAC \in Fractions
    /\ MOVE_SL_TO_BE_ON_TP1 \in BOOLEAN
    /\ STOP_FILL_MODE \in StopFillModes
    /\ BE_BUFFER_PCT \in Buffers
    /\ born \in {[id \in TradeIds |-> IF id = 1 THEN "PENDING" ELSE b] : b \in {"PENDING", "FILLED"}}
    /\ \E g \in Geometries :
          open_trades = [id \in TradeIds |->
                            IF id = 1 THEN EarlierTrade
                            ELSE InitTrade(id, g, born[id], ENTRY_TIMEOUT_SEC)]
    /\ equity = START_EQUITY
    /\ px_map = <<>>
    /\ todo = <<>>
    /\ pc = "fetch"
    /\ now = ENTRY_TIMEOUT_SEC
    /\ out_rows = <<[trade_id |-> 1, row |-> EarlierTrade]>>
    /\ state_file = [equity |-> equity, open_trades |-> open_trades]
    /\ hist = [id \in TradeIds |-> IF id = 1 THEN Overflow ELSE <<>>]
    /\ NoIngest
    /\ NoAlerts
    /\ NoCalls

\* Lines 414-426: one ticker per symbol with an OPEN trade; a failed or
\* non-finite or non-positive ticker leaves the symbol out of px_map.
FetchTickers ==
    /\ pc = "fetch"
    /\ LET symbols == {open_trades[id].symbol : id \in {i \in TradeIds : open_trades[i].status = "OPEN"}}
       IN  \E got \in SUBSET symbols : px_map' \in [got -> Prices]
    /\ todo' = IdList(TradeIds)
    /\ pc' = "tick"
    /\ UNCHANGED <<config, others, open_trades, equity, now, out_rows, state_file, hist, born>>

\* Lines 429-547: the next trade of the pass.
TickTrade ==
    /\ pc = "tick"
    /\ todo # <<>>
    /\ LET id == Head(todo)
       IN  IF Ticked(id)
           THEN LET px == px_map[open_trades[id].symbol]
                    r  == TickOutcome(open_trades[id], px, equity, now)
                IN  /\ open_trades' = IF r.store THEN [open_trades EXCEPT ![id] = r.tr]
                                      ELSE open_trades
                    /\ equity' = r.equity
                    /\ out_rows' = IF r.row THEN Append(out_rows, [trade_id |-> id, row |-> r.tr])
                                   ELSE out_rows
                    /\ hist' = [hist EXCEPT ![id] = Record(hist[id], px)]
           ELSE UNCHANGED <<open_trades, equity, out_rows, hist>>
    /\ todo' = Tail(todo)
    /\ UNCHANGED <<config, others, px_map, pc, now, state_file, born>>

\* Lines 549-552: persist state.
Persist ==
    /\ pc = "tick"
    /\ todo = <<>>
    /\ state_file' = [equity |-> equity, open_trades |-> open_trades]
    /\ pc' = "sleep"
    /\ UNCHANGED <<config, others, open_trades, equity, px_map, todo, now, out_rows, hist, born>>

\* Line 554: time.sleep(POLL_SEC); the clock is capped.
Sleep ==
    /\ pc = "sleep"
    /\ \E dt \in 0..1 : now' = Min(now + dt, ENTRY_TIMEOUT_SEC + MaxAge)
    /\ pc' = "fetch"
    /\ UNCHANGED <<config, others, open_trades, equity, px_map, todo, out_rows, state_file, hist, born>>

Next == FetchTickers \/ TickTrade \/ Persist \/ Sleep

Spec == Init /\ [][Next]_vars

\* The state after load_state() of a state file that holds two OPEN trades
\* on two symbols (MAX_OPEN_TRADES_PER_SYMBOL allows one per symbol), both
\* LONG and the first filled, under the default configuration.
TwoInit ==
    /\ TP1_CLOSE_FRAC = [n |-> 1, d |-> 2]
    /\ MOVE_SL_TO_BE_ON_TP1 = TRUE
    /\ STOP_FILL_MODE = "CAP"
    /\ BE_BUFFER_PCT = [n |-> 0, d |-> 1]
    /\ born \in {[id \in TradeIds |-> IF id = 1 THEN "FILLED" ELSE b] : b \in {"PENDING", "FILLED"}}
    /\ \E g \in {x \in Geometries : x.side = "LONG"} :
          open_trades = [id \in TradeIds |->
                            IF id = 1
                            THEN [InitTrade(id, g, born[id], ENTRY_TIMEOUT_SEC)
                                     EXCEPT !.symbol = "ETH/USDT:USDT"]
                            ELSE InitTrade(id, g, born[id], ENTRY_TIMEOUT_SEC)]
    /\ equity = START_EQUITY
    /\ px_map = <<>>
    /\ todo = <<>>
    /\ pc = "fetch"
    /\ now = ENTRY_TIMEOUT_SEC
    /\ out_rows = <<>>
    /\ state_file = [equity |-> equity, open_trades |-> open_trades]
    /\ hist = [id \in TradeIds |-> <<>>]
    /\ NoIngest
    /\ NoAlerts
    /\ NoCalls

TwoSpec == TwoInit /\ [][Next]_vars

\* The execution loop keeps running: `while True` always takes its next step.
\* The live trade starts pending, under the default configuration
\* (paper_exec.py:34-43).
FairInit ==
    /\ Init
    /\ born[2] = "PENDING"
    /\ TP1_CLOSE_FRAC = [n |-> 1, d |-> 2]
    /\ MOVE_SL_TO_BE_ON_TP1
    /\ STOP_FILL_MODE = "CAP"
    /\ BE_BUFFER_PCT = [n |-> 0, d |-> 1]

FairSpec == FairInit /\ [][Next]_vars /\ WF_vars(Next)

----------------------------------------------------------------------------
(* Step 1 of the loop (ingest), persistence and restart:                   *)
(* paper_exec.py:387-412, 549-554, 72-77, 309-317.                         *)
(*                                                                         *)
(* Here open_trades starts empty and grows by the trades the loop plans.   *)
(* Step 2 of the loop is kept as its effect on the status of each trade.   *)

\* The signal file holds at most MaxLog lines.
MaxLog == 3

\* The process is restarted at most MaxRestarts times.
MaxRestarts == 1

\* The clock of the ingest specifications stops at MaxClock.
MaxClock == 2

EventOf(t, sym, setup, lower, upper) ==
    [ts |-> t, symbol |-> sym, symbol_raw |-> sym, setup |-> setup,
     lower |-> lower, upper |-> upper, close |-> lower[2] + 1]

\* Events of three identities, with zones 0.3 apart.
ExecEvents ==
    { EventOf(1, "ETHUSDT", "MEAN_REVERT_LOWER_TOUCH_LONG", <<29000, 30000>>, <<33000, 34000>>),
      EventOf(2, "SOLUSDT", "MEAN_REVERT_UPPER_TOUCH_SHORT", <<29000, 30000>>, <<33000, 34000>>),
      EventOf(3, "ETHUSDT", "MEAN_REVERT_UPPER_TOUCH_SHORT", <<29000, 30000>>, <<33000, 34000>>) }

\* Lines of the signal file that are no event: text json.loads raises on
\* (line 332), and JSON that is no object (line 333).
Malformed == { [junk |-> "not json"], [junk |-> "list"] }

\* Lines 332-333: the line parses to a dict.
IsEvent(line) == "junk" \notin DOMAIN line

\* The lines of a sequence up to its first malformed line.
RECURSIVE UpToMalformed(_)
UpToMalformed(lines) ==
    IF lines = <<>> \/ ~IsEvent(Head(lines)) THEN <<>>
    ELSE <<Head(lines)>> \o UpToMalformed(Tail(lines))

\* read_signals_tail that leaves the loop at a malformed line, the cursor
\* on it.
read_signals_tail_StopAtMalformed(lines, start_offset) ==
    LET out == UpToMalformed(SubSeq(lines, start_offset + 1, Len(lines)))
    IN  [end |-> Max(start_offset, Min(Len(lines), start_offset + Len(out))),
         out |-> out]

\* A line of an event that reaches the file in two parts (the write of
\* alerts.py:108 seen half done): neither part parses on its own.
FirstPart(e) == [junk |-> "head", of |-> e]

RestPart(e) == [junk |-> "tail", of |-> e]

IsHead(p) == ~IsEvent(p) /\ p.junk = "head"

IsTail(p) == ~IsEvent(p) /\ p.junk = "tail"

\* What f.readline() returns over what the file holds (line 329): the two
\* parts of a line read together are the line, a part read alone is itself.
RECURSIVE Lines(_)
Lines(pieces) ==
    IF pieces = <<>> THEN <<>>
    ELSE IF Len(pieces) >= 2 /\ IsHead(pieces[1]) /\ IsTail(pieces[2])
         THEN <<pieces[1].of>> \o Lines(SubSeq(pieces, 3, Len(pieces)))
         ELSE <<pieces[1]>> \o Lines(Tail(pieces))

\* Lines 322-339 over the lines of the file, the cursor counted in lines:
\* every line after the cursor is read, the dicts are kept in order, and the
\* cursor returned is the end of the file (f.tell() of line 338, the cursor
\* itself when it lies beyond the end).
read_signals_tail(lines, start_offset) ==
    [end |-> Max(start_offset, Len(lines)),
     out |-> SelectSeq(Lines(SubSeq(lines, start_offset + 1, Len(lines))), IsEvent)]

\* The file ends in the first part of a line whose rest is not written yet.
Dangling == signals # <<>> /\ IsHead(signals[Len(signals)])

\* emit_signal_event of the signal loop (alerts.py:98-110) appends a line.
AppendEvent ==
    /\ Len(signals) < MaxLog
    /\ ~Dangling
    /\ \E e \in source : signals' = Append(signals, e)
    /\ UNCHANGED <<config, alerts, calls, open_trades, equity, px_map, todo, pc, now, out_rows,
                   state_file, hist, born, ENTRY_PRICE_MODE, offset, dedup, evts,
                   tmp_file, source, evicted, restarts>>

\* Lines 389-391 over read_signals_tail (lines 322-339): the lines after the
\* cursor, and the cursor moved to the end of the file.
ReadSignals ==
    /\ pc = "read"
    /\ evts' = read_signals_tail(signals, offset).out
    /\ offset' = read_signals_tail(signals, offset).end
    /\ pc' = "plan"
    /\ UNCHANGED <<config, alerts, calls, open_trades, equity, px_map, todo, now, out_rows,
                   state_file, hist, born, ENTRY_PRICE_MODE, signals, dedup,
                   tmp_file, source, evicted, restarts>>

\* per_sym that counts the filled trades only.
per_sym_FilledOnly(sym) ==
    {id \in DOMAIN open_trades :
        /\ open_trades[id].symbol = sym
        /\ open_trades[id].status = "OPEN"
        /\ open_trades[id].filled_entry > 0}

\* Line 403: the OPEN trades of a symbol.
per_sym(sym) ==
    {id \in DOMAIN open_trades :
        open_trades[id].symbol = sym /\ open_trades[id].status = "OPEN"}

\* Lines 393-412: the body of `for evt in evts`, for the next event.
IngestEvent ==
    /\ pc = "plan"
    /\ evts # <<>>
    /\ LET evt == Head(evts)
           r   == dedup_accept(dedup, evt)
           t   == plan_from_event(evt, equity, DEFAULT_LEVERAGE, now)
       IN  /\ dedup' = r.dedup
           /\ evicted' = evicted \cup ({dedup[i] : i \in DOMAIN dedup}
                                        \ {r.dedup[i] : i \in DOMAIN r.dedup})
           /\ IF /\ r.accept
                 /\ evt.symbol # ""
                 /\ Cardinality(per_sym(evt.symbol)) < MAX_OPEN_TRADES_PER_SYMBOL
                 /\ t # None
              THEN open_trades' = [id \in DOMAIN open_trades \cup {t.trade_id} |->
                                      IF id = t.trade_id THEN t ELSE open_trades[id]]
              ELSE open_trades' = open_trades
    /\ evts' = Tail(evts)
    /\ UNCHANGED <<config, alerts, calls, equity, px_map, todo, pc, now, out_rows, state_file,
                   hist, born, ENTRY_PRICE_MODE, signals, offset, tmp_file,
                   source, restarts>>

\* Lines 414-547, step 2 of the loop, by its effect on the trades this
\* specification plans: a pending trade stays pending (its fill is not
\* stored) or is cancelled by the entry timeout, with equity unchanged.
TickPass ==
    /\ pc = "plan"
    /\ evts = <<>>
    /\ \E ended \in SUBSET {id \in DOMAIN open_trades : open_trades[id].status = "OPEN"} :
          open_trades' = [id \in DOMAIN open_trades |->
                             IF id \in ended
                             THEN [open_trades[id] EXCEPT !.status = "CANCELED",
                                                          !.close_reason = "ENTRY_TIMEOUT",
                                                          !.ts_closed = now_iso(now)]
                             ELSE open_trades[id]]
    /\ pc' = "save"
    /\ UNCHANGED <<config, alerts, calls, equity, px_map, todo, now, out_rows, state_file, hist,
                   born, ingest>>

\* Lines 550-552 and 74-76: save_json writes the dict to STATE_FILE + ".tmp".
WriteTmp ==
    /\ pc = "save"
    /\ tmp_file' = Snapshot
    /\ pc' = "replace"
    /\ UNCHANGED <<config, alerts, calls, open_trades, equity, px_map, todo, now, out_rows,
                   state_file, hist, born, ENTRY_PRICE_MODE, signals, offset,
                   dedup, evts, source, evicted, restarts>>

\* Line 77: os.replace(tmp, path).
ReplaceFile ==
    /\ pc = "replace"
    /\ state_file' = tmp_file
    /\ tmp_file' = NoFile
    /\ pc' = "sleep"
    /\ UNCHANGED <<config, alerts, calls, open_trades, equity, px_map, todo, now, out_rows,
                   hist, born, ENTRY_PRICE_MODE, signals, offset, dedup, evts,
                   source, evicted, restarts>>

\* Line 554.
PollSleep ==
    /\ pc = "sleep"
    /\ \E dt \in 0..1 : now' = Min(now + dt, MaxClock)
    /\ pc' = "read"
    /\ UNCHANGED <<config, alerts, calls, open_trades, equity, px_map, todo, out_rows,
                   state_file, hist, born, ingest>>

\* The process dies at any point and is started again: lines 373-379.  A
\* death inside the write of line 76 leaves a cut-short temporary file.
Restart ==
    /\ restarts < MaxRestarts
    /\ restarts' = restarts + 1
    /\ LET st == load_state(state_file)
       IN  /\ offset' = st.offset
           /\ equity' = st.equity
           /\ open_trades' = st.open_trades
           /\ dedup' = st.dedup
           /\ evicted' = st.evicted
    /\ evts' = <<>>
    /\ tmp_file' \in IF pc = "save" THEN {tmp_file, Torn} ELSE {tmp_file}
    /\ pc' = "read"
    /\ UNCHANGED <<config, alerts, calls, px_map, todo, now, out_rows, state_file, hist, born,
                   ENTRY_PRICE_MODE, signals, source>>

ExecNext ==
    \/ AppendEvent
    \/ ReadSignals
    \/ IngestEvent
    \/ TickPass
    \/ WriteTmp
    \/ ReplaceFile
    \/ PollSleep
    \/ Restart

\* The default configuration of the per-trade state machine (lines 34-43).
DefaultConfig ==
    /\ TP1_CLOSE_FRAC = [n |-> 1, d |-> 2]
    /\ MOVE_SL_TO_BE_ON_TP1 = TRUE
    /\ STOP_FILL_MODE = "CAP"
    /\ BE_BUFFER_PCT = [n |-> 0, d |-> 1]

\* A first start: no state file, an empty signal file.
ExecInit ==
    /\ DefaultConfig
    /\ NoAlerts
    /\ NoCalls
    /\ ENTRY_PRICE_MODE = "ZONE"
    /\ open_trades = <<>>
    /\ equity = START_EQUITY
    /\ px_map = <<>>
    /\ todo = <<>>
    /\ pc = "read"
    /\ now = 0
    /\ out_rows = <<>>
    /\ state_file = NoFile
    /\ hist = <<>>
    /\ born = <<>>
    /\ signals = <<>>
    /\ offset = 0
    /\ dedup = <<>>
    /\ evts = <<>>
    /\ tmp_file = NoFile
    /\ source = ExecEvents
    /\ evicted = {}
    /\ restarts = 0

ExecSpec == ExecInit /\ [][ExecNext]_vars

\* A first start on a signal file that takes malformed lines among the
\* events of two identities.
TailInit ==
    /\ DefaultConfig
    /\ NoAlerts
    /\ NoCalls
    /\ ENTRY_PRICE_MODE = "ZONE"
    /\ open_trades = <<>>
    /\ equity = START_EQUITY
    /\ px_map = <<>>
    /\ todo = <<>>
    /\ pc = "read"
    /\ now = 0
    /\ out_rows = <<>>
    /\ state_file = NoFile
    /\ hist = <<>>
    /\ born = <<>>
    /\ signals = <<>>
    /\ offset = 0
    /\ dedup = <<>>
    /\ evts = <<>>
    /\ tmp_file = NoFile
    /\ source = Malformed \cup
                {e \in ExecEvents : e.setup = "MEAN_REVERT_UPPER_TOUCH_SHORT"}
    /\ evicted = {}
    /\ restarts = 0

TailSpec == TailInit /\ [][ExecNext]_vars

\* Zones of an event: apart, one step apart, touching, overlapping, and
\* inverted by the floor of the padding (stop on the entry in ZONE mode).
PlanZones ==
    { [lower |-> <<29000, 30000>>, upper |-> <<33000, 34000>>],
      [lower |-> <<29000, 30000>>, upper |-> <<30001, 31000>>],
      [lower |-> <<29000, 30000>>, upper |-> <<30000, 31000>>],
      [lower |-> <<29000, 30000>>, upper |-> <<29500, 31000>>],
      [lower |-> <<30000, 30000 - PadFloor>>, upper |-> <<34000 + PadFloor, 34000>>] }

PlanEvents ==
    { EventOf(1, "ETHUSDT", setup, z.lower, z.upper) :
        setup \in {"MEAN_REVERT_LOWER_TOUCH_LONG", "MEAN_REVERT_UPPER_TOUCH_SHORT"},
        z \in PlanZones }

\* Equity a state file may hold: negative, zero, small, large.
Equities == {0 - 2400000, 0, 100000, 2400000}

\* A start from a state file with some equity; the signal loop emits one
\* event, in either entry mode.
PlanInit ==
    /\ DefaultConfig
    /\ NoAlerts
    /\ NoCalls
    /\ ENTRY_PRICE_MODE \in {"ZONE", "LOHI"}
    /\ open_trades = <<>>
    /\ equity \in Equities
    /\ px_map = <<>>
    /\ todo = <<>>
    /\ pc = "read"
    /\ now = 0
    /\ out_rows = <<>>
    /\ hist = <<>>
    /\ born = <<>>
    /\ signals = <<>>
    /\ offset = 0
    /\ dedup = <<>>
    /\ evts = <<>>
    /\ tmp_file = NoFile
    /\ \E e \in PlanEvents : source = {e}
    /\ evicted = {}
    /\ restarts = 0
    /\ state_file = Snapshot

PlanSpec == PlanInit /\ [][ExecNext]_vars

----------------------------------------------------------------------------
(* The signal loop: alerts.py main(), lines 557-766.                       *)
(*                                                                         *)
(* A candle is [h, l, c] in price steps; a window is a sequence of         *)
(* candles, the most recent last.  Zone bounds are in 1/ZScale of a price  *)
(* step, the unit in which the padding of compute_zones is exact.          *)
(* Percentages (px15m, width_pct, the anchor pair's change) are in         *)
(* hundredths of a percent; width_pct, a quotient, is the record           *)
(* [n |-> numerator, d |-> denominator].  An optional float is <<>> (None) *)
(* or <<v>>; not-a-number is NaN.  A regime string is the sequence of its  *)
(* words.  The regime notification of lines 604-614 sends no signal and is *)
(* left out.                                                               *)

\* The signal loop makes at most MaxCycles cycles.
MaxCycles == 2

SYMBOL == "BTCUSDT"

SETUP_SYMBOLS == <<"ETHUSDT">>

ALT_ENABLED_BTC_REGIMES == {"RANGE", "DELEVERAGING", "LONG_UNWIND", "SHORT_SQUEEZE"}

\* SETUP_COOLDOWN_SEC, in clock steps.
SETUP_COOLDOWN_SEC == 2

\* MEAN_REVERT_MAX_WIDTH_PCT, 0.45.
MEAN_REVERT_MAX_WIDTH_PCT == 45

\* ALT_BTC_BIAS_PCT, 0.03.
ALT_BTC_BIAS_PCT == 3

\* Zone bounds are in 1/ZScale of a price step: 0.25 is 5000 / ZScale and
\* 0.0007 is 14 / ZScale (lines 368-369).
ZScale == 20000

\* max(60, lookback_min) of line 359, in candles.
Lookback == 3

MeanRevertKeys == {"MEAN_REVERT_LONG", "MEAN_REVERT_SHORT"}

SetupKeys == {"SWEEP_RECLAIM_SHORT", "SWEEP_RECLAIM_LONG"} \cup MeanRevertKeys

\* float("nan"), the default of safe_float (lines 272-276): a pair, so that
\* it equals no number <<v>>.
NaN == <<0, 0>>

\* x < k and x > k on a float that may be NaN: false on NaN.
FLt(x, k) == x # NaN /\ x[1] < k
FGt(x, k) == x # NaN /\ x[1] > k

\* w <= k and w > k on a quotient w.
PctLe(w, k) == w.n <= k * w.d
PctGt(w, k) == w.n > k * w.d

RECURSIVE MaxOf(_, _)
\* max() of line 365 over field f of the candles.
MaxOf(sample, f) ==
    IF Len(sample) = 1 THEN sample[1][f]
    ELSE Max(sample[1][f], MaxOf(Tail(sample), f))

RECURSIVE MinOf(_, _)
\* min() of line 366.
MinOf(sample, f) ==
    IF Len(sample) = 1 THEN sample[1][f]
    ELSE Min(sample[1][f], MinOf(Tail(sample), f))

\* compute_zones with the padding on the outer side of each band.
compute_zones_PadOutside(kl_1m, atr) ==
    IF kl_1m = <<>> \/ SelectSeq(kl_1m, LAMBDA k : k.c > 0) = <<>> THEN None
    ELSE LET hi  == MaxOf(kl_1m, "h") * ZScale
             lo  == MinOf(kl_1m, "l") * ZScale
             mid == SelectSeq(kl_1m, LAMBDA k : k.c > 0)[1].c
         IN  [upper_lo |-> hi + 14 * mid, upper_hi |-> hi,
              lower_lo |-> lo, lower_hi |-> lo - 14 * mid,
              width_pct |-> [n |-> hi - lo, d |-> 2 * mid]]

\* Lines 356-377: None, or the Zones; atr is <<>> or <<a>>.
compute_zones(kl_1m, atr) ==
    IF kl_1m = <<>> THEN None
    ELSE LET n      == Min(Len(kl_1m), Lookback)
             sample == SubSeq(kl_1m, Len(kl_1m) - n + 1, Len(kl_1m))
             closes == SelectSeq(sample, LAMBDA k : k.c > 0)
         IN  IF closes = <<>> THEN None
             ELSE LET recent_high == MaxOf(sample, "h")
                      recent_low  == MinOf(sample, "l")
                      mid         == closes[Len(closes)].c
                      pad_atr     == IF atr # <<>> /\ atr[1] > 0 THEN 5000 * atr[1] ELSE 0
                      pad         == Max(pad_atr, 14 * mid)
                      upper_hi    == recent_high * ZScale
                      upper_lo    == recent_high * ZScale - pad
                      lower_lo    == recent_low * ZScale
                      lower_hi    == recent_low * ZScale + pad
                      width       == Max(0, upper_lo - lower_hi)
                  IN  [upper_lo |-> upper_lo, upper_hi |-> upper_hi,
                       lower_lo |-> lower_lo, lower_hi |-> lower_hi,
                       width_pct |-> IF mid > 0 THEN [n |-> width, d |-> 2 * mid]
                                     ELSE [n |-> 0, d |-> 1]]

\* classify_regime with the open-interest threshold of lines 387 and 389 not
\* strict.
classify_regime_OiNotStrict(px15m, oi15m, width_pct) ==
    IF px15m = <<>> \/ width_pct = <<>> THEN <<"UNKNOWN">>
    ELSE IF oi15m = <<>>
         THEN (IF PctLe(width_pct[1], 30) /\ Abs(px15m[1]) <= 25
               THEN <<"RANGE", "/", "CHOP", "(OI", "n/a)">>
               ELSE <<"TRANSITION", "(OI", "n/a)">>)
    ELSE IF oi15m[1] <= 0 - 250 /\ px15m[1] < 0 - 20
         THEN <<"DELEVERAGING", "/", "LONG", "UNWIND">>
    ELSE IF oi15m[1] <= 0 - 250 /\ px15m[1] > 20
         THEN <<"SHORT", "COVER", "/", "SQUEEZE">>
    ELSE IF PctLe(width_pct[1], 30) /\ Abs(px15m[1]) <= 25 /\ Abs(oi15m[1]) <= 200
         THEN <<"RANGE", "/", "CHOP">>
    ELSE <<"TRANSITION">>

\* classify_regime whose range rule takes |oi15m| <= 250.
classify_regime_WideOi(px15m, oi15m, width_pct) ==
    IF px15m = <<>> \/ width_pct = <<>> THEN <<"UNKNOWN">>
    ELSE IF oi15m = <<>>
         THEN (IF PctLe(width_pct[1], 30) /\ Abs(px15m[1]) <= 25
               THEN <<"RANGE", "/", "CHOP", "(OI", "n/a)">>
               ELSE <<"TRANSITION", "(OI", "n/a)">>)
    ELSE IF oi15m[1] < 0 - 250 /\ px15m[1] < 0 - 20
         THEN <<"DELEVERAGING", "/", "LONG", "UNWIND">>
    ELSE IF oi15m[1] < 0 - 250 /\ px15m[1] > 20
         THEN <<"SHORT", "COVER", "/", "SQUEEZE">>
    ELSE IF PctLe(width_pct[1], 30) /\ Abs(px15m[1]) <= 25 /\ Abs(oi15m[1]) <= 250
         THEN <<"RANGE", "/", "CHOP">>
    ELSE <<"TRANSITION">>

\* Lines 380-393.
classify_regime(px15m, oi15m, width_pct) ==
    IF px15m = <<>> \/ width_pct = <<>> THEN <<"UNKNOWN">>
    ELSE IF oi15m = <<>>
         THEN (IF PctLe(width_pct[1], 30) /\ Abs(px15m[1]) <= 25
               THEN <<"RANGE", "/", "CHOP", "(OI", "n/a)">>
               ELSE <<"TRANSITION", "(OI", "n/a)">>)
    ELSE IF oi15m[1] < 0 - 250 /\ px15m[1] < 0 - 20
         THEN <<"DELEVERAGING", "/", "LONG", "UNWIND">>
    ELSE IF oi15m[1] < 0 - 250 /\ px15m[1] > 20
         THEN <<"SHORT", "COVER", "/", "SQUEEZE">>
    ELSE IF PctLe(width_pct[1], 30) /\ Abs(px15m[1]) <= 25 /\ Abs(oi15m[1]) <= 200
         THEN <<"RANGE", "/", "CHOP">>
    ELSE <<"TRANSITION">>

\* str.upper() on a word.
Upper(w) == IF w = "n/a)" THEN "N/A)" ELSE IF w = "range" THEN "RANGE" ELSE w

\* `words in r`, on whole words.
Has(r, words) ==
    \E i \in 1..Len(r) :
        /\ i + Len(words) - 1 <= Len(r)
        /\ \A j \in 1..Len(words) : Upper(r[i + j - 1]) = words[j]

\* norm_regime that looks for DELEVERAGING before LONG UNWIND.
norm_regime_DeleveragingFirst(regime_raw) ==
    IF Has(regime_raw, <<"RANGE">>) THEN "RANGE"
    ELSE IF Has(regime_raw, <<"TRANSITION">>) THEN "TRANSITION"
    ELSE IF Has(regime_raw, <<"SQUEEZE">>) \/ Has(regime_raw, <<"SHORT", "COVER">>)
         THEN "SHORT_SQUEEZE"
    ELSE IF Has(regime_raw, <<"DELEVERAGING">>) THEN "DELEVERAGING"
    ELSE IF Has(regime_raw, <<"LONG", "UNWIND">>) THEN "LONG_UNWIND"
    ELSE "UNKNOWN"

\* Lines 395-407.
norm_regime(regime_raw) ==
    IF Has(regime_raw, <<"RANGE">>) THEN "RANGE"
    ELSE IF Has(regime_raw, <<"TRANSITION">>) THEN "TRANSITION"
    ELSE IF Has(regime_raw, <<"SQUEEZE">>) \/ Has(regime_raw, <<"SHORT", "COVER">>)
         THEN "SHORT_SQUEEZE"
    ELSE IF Has(regime_raw, <<"LONG", "UNWIND">>) THEN "LONG_UNWIND"
    ELSE IF Has(regime_raw, <<"DELEVERAGING">>) THEN "DELEVERAGING"
    ELSE "UNKNOWN"

\* A SetupSignal (lines 411-415), if its condition holds.
Sig(key, direction, cond) ==
    IF cond THEN {[key |-> key, direction |-> direction]} ELSE {}

\* detect_setups that returns the mean-revert setups in every regime.
detect_setups_AnyRegime(regime_key, kl_1m, z) ==
    LET h1 == kl_1m[Len(kl_1m)].h * ZScale
        l1 == kl_1m[Len(kl_1m)].l * ZScale
        c1 == kl_1m[Len(kl_1m)].c * ZScale
    IN  Sig("MEAN_REVERT_SHORT", "SHORT", h1 >= z.upper_lo /\ c1 < z.upper_lo)
        \cup Sig("MEAN_REVERT_LONG", "LONG", l1 <= z.lower_hi /\ c1 > z.lower_hi)

\* Lines 417-469: the SetupSignals returned, as a set (their keys are
\* distinct and are appended in the order short sweep, long sweep, short
\* mean revert, long mean revert).
detect_setups(regime_key, kl_1m, z) ==
    IF Len(kl_1m) < 3 THEN {}
    ELSE LET h1 == kl_1m[Len(kl_1m)].h * ZScale
             l1 == kl_1m[Len(kl_1m)].l * ZScale
             c1 == kl_1m[Len(kl_1m)].c * ZScale
             h0 == kl_1m[Len(kl_1m) - 1].h * ZScale
             l0 == kl_1m[Len(kl_1m) - 1].l * ZScale
             swept_up       == h1 > z.upper_hi \/ h0 > z.upper_hi
             reclaimed_down == c1 < z.upper_lo /\ h1 > z.upper_lo
             swept_down     == l1 < z.lower_lo \/ l0 < z.lower_lo
             reclaimed_up   == c1 > z.lower_hi /\ l1 < z.lower_hi
         IN  Sig("SWEEP_RECLAIM_SHORT", "SHORT", swept_up /\ reclaimed_down)
             \cup Sig("SWEEP_RECLAIM_LONG", "LONG", swept_down /\ reclaimed_up)
             \cup Sig("MEAN_REVERT_SHORT", "SHORT",
                      regime_key = "RANGE" /\ h1 >= z.upper_lo /\ c1 < z.upper_lo)
             \cup Sig("MEAN_REVERT_LONG", "LONG",
                      regime_key = "RANGE" /\ l1 <= z.lower_hi /\ c1 > z.lower_hi)

\* A table that allows every setup in every regime.
ALLOWED_SETUPS_All(regime_key) ==
    {"SWEEP_RECLAIM_SHORT", "SWEEP_RECLAIM_LONG", "MEAN_REVERT_SHORT", "MEAN_REVERT_LONG"}

\* Lines 471-478, read as ALLOWED_SETUPS.get(regime_key, set()).
ALLOWED_SETUPS(regime_key) ==
    IF regime_key = "SHORT_SQUEEZE" THEN {"SWEEP_RECLAIM_SHORT"}
    ELSE IF regime_key = "LONG_UNWIND" THEN {"SWEEP_RECLAIM_LONG"}
    ELSE IF regime_key \in {"RANGE", "DELEVERAGING"}
         THEN {"SWEEP_RECLAIM_SHORT", "SWEEP_RECLAIM_LONG",
               "MEAN_REVERT_SHORT", "MEAN_REVERT_LONG"}
    ELSE {}

\* mean_revert_ok without the width test of lines 507-508.
mean_revert_ok_NoWidth(z, oi15m, direction) ==
    IF ~OI_CONTRA_FILTER \/ oi15m = <<>> THEN TRUE
    ELSE IF Abs(oi15m[1]) < OI_CONTRA_MIN_ABS THEN FALSE
    ELSE IF direction = "LONG" /\ oi15m[1] > 0 - OI_CONTRA_MIN_ABS THEN FALSE
    ELSE IF direction = "SHORT" /\ oi15m[1] < OI_CONTRA_MIN_ABS THEN FALSE
    ELSE TRUE

\* mean_revert_ok without the direction tests of lines 520-523.
mean_revert_ok_NoContra(z, oi15m, direction) ==
    IF PctGt(z.width_pct, MEAN_REVERT_MAX_WIDTH_PCT) THEN FALSE
    ELSE IF ~OI_CONTRA_FILTER \/ oi15m = <<>> THEN TRUE
    ELSE IF Abs(oi15m[1]) < OI_CONTRA_MIN_ABS THEN FALSE
    ELSE TRUE

\* Lines 505-525: the boolean of the pair returned.
mean_revert_ok(z, oi15m, direction) ==
    IF PctGt(z.width_pct, MEAN_REVERT_MAX_WIDTH_PCT) THEN FALSE
    ELSE IF ~OI_CONTRA_FILTER \/ oi15m = <<>> THEN TRUE
    ELSE IF Abs(oi15m[1]) < OI_CONTRA_MIN_ABS THEN FALSE
    ELSE IF direction = "LONG" /\ oi15m[1] > 0 - OI_CONTRA_MIN_ABS THEN FALSE
    ELSE IF direction = "SHORT" /\ oi15m[1] < OI_CONTRA_MIN_ABS THEN FALSE
    ELSE TRUE

\* Lines 297-304 over a kline list of len candles whose closes at [-1] and
\* [-16] coerce (safe_float, lines 272-276) to close_now and close_15m, each
\* <<v>> or NaN: None (<<>>), NaN, or the change in hundredths of a percent.
\* A NaN close passes the test of line 302, whose comparisons are false, and
\* the quotient of line 304 is NaN.
px_change_15m_from_1m(len, close_now, close_15m) ==
    IF len < 20 THEN <<>>
    ELSE IF (close_now # NaN /\ close_now[1] <= 0) \/ (close_15m # NaN /\ close_15m[1] <= 0)
         THEN <<>>
    ELSE IF close_now = NaN \/ close_15m = NaN THEN NaN
    ELSE <<((close_now[1] - close_15m[1]) * 10000) \div close_15m[1]>>

\* Lines 535-536: f"{base}BTC".
AltBtc(sym) == IF sym = "ETHUSDT" THEN "ETHBTC"
               ELSE IF sym = "SOLUSDT" THEN "SOLBTC" ELSE "BTCBTC"

\* Lines 527-554: the boolean of the triple returned; ch is the 15-minute
\* change px_change_15m_from_1m gives on the klines of the anchor pair (lines
\* 540-546): <<>> without data, <<v>>, or NaN.
altbtc_bias_ok(sym, direction, ch) ==
    IF AltBtc(sym) \notin WATCH_ALT_BTC THEN TRUE
    ELSE IF ch = <<>> THEN TRUE
    ELSE IF direction = "LONG" /\ FLt(ch, 0 - ALT_BTC_BIAS_PCT) THEN FALSE
    ELSE IF direction = "SHORT" /\ FGt(ch, ALT_BTC_BIAS_PCT) THEN FALSE
    ELSE TRUE

\* Lines 632-634, 712-714: not ((now - prev) < SETUP_COOLDOWN_SEC).
CooldownPassed(prev, t) == ~((t - prev) < SETUP_COOLDOWN_SEC)

\* last_setup_ts.get(key, 0.0).
Get(d, key) == IF key \in DOMAIN d THEN d[key] ELSE 0

\* The loop body of lines 620-671 (primary) and 689-752 (secondary) over the
\* SetupSignals of one symbol: those that are sent.  The signals of one scan
\* have distinct keys, so each is judged on last_setup_ts as the scan began.
Gate(sym, primary, sigs, regime_key, z, oi15m, ch, t) ==
    {s \in sigs :
        /\ s.key \in ALLOWED_SETUPS(regime_key)
        /\ (s.key \in MeanRevertKeys => mean_revert_ok(z, oi15m, s.direction))
        /\ (s.key \in MeanRevertKeys /\ ~primary => altbtc_bias_ok(sym, s.direction, ch))
        /\ CooldownPassed(Get(last_setup_ts, <<sym, s.key>>), t)}

\* Lines 671 and 752 for the signals sent, at time t.
Stamp(d, sym, keys, v) ==
    [k \in DOMAIN d \cup {<<sym, key>> : key \in keys} |->
        IF k[1] = sym /\ k[2] \in keys THEN v ELSE d[k]]

Signals(sym, sigs) == {[sym |-> sym, key |-> s.key, direction |-> s.direction] : s \in sigs}

\* An event for every setup sent, under its own key.
PaperSetup_Every(key) == <<key>>

\* Lines 642-669, 723-750: the setup name of the event a signal appends to
\* the event log, <<>> for a signal that appends none.
PaperSetup(key) ==
    IF key = "MEAN_REVERT_LONG" THEN <<"MEAN_REVERT_LOWER_TOUCH_LONG">>
    ELSE IF key = "MEAN_REVERT_SHORT" THEN <<"MEAN_REVERT_UPPER_TOUCH_SHORT">>
    ELSE <<>>

\* The dict of lines 643-655 as emit_signal_event (lines 98-110) writes it.
SignalEvent(t, sym, key, regime_key, z, oi15m) ==
    [ts |-> t, symbol_raw |-> sym, setup |-> PaperSetup(key)[1],
     regime |-> IF regime_key = "RANGE" THEN "RANGE_CHOP" ELSE regime_key,
     lower |-> <<z.lower_lo, z.lower_hi>>, upper |-> <<z.upper_lo, z.upper_hi>>,
     width_pct |-> z.width_pct, oi15m |-> oi15m]

\* The keys in the order detect_setups appends them.
KeyOrder == <<"SWEEP_RECLAIM_SHORT", "SWEEP_RECLAIM_LONG", "MEAN_REVERT_SHORT",
              "MEAN_REVERT_LONG">>

RECURSIVE Events(_, _, _, _, _, _, _)
\* The lines the signals sent (keys out) append, from key i of KeyOrder on.
Events(i, out, t, sym, regime_key, z, oi15m) ==
    IF i > Len(KeyOrder) THEN <<>>
    ELSE (IF KeyOrder[i] \in out /\ PaperSetup(KeyOrder[i]) # <<>>
          THEN <<SignalEvent(t, sym, KeyOrder[i], regime_key, z, oi15m)>>
          ELSE <<>>)
         \o Events(i + 1, out, t, sym, regime_key, z, oi15m)

\* The for loop of lines 620-671 or 689-752 over the SetupSignals sigs of one
\* symbol: the signals sent, the lines appended to the event log, and
\* last_setup_ts after it.
Scan(sym, primary, sigs, regime_key, z, oi15m, ch, t) ==
    LET out == Gate(sym, primary, sigs, regime_key, z, oi15m, ch, t)
    IN  [sent |-> Signals(sym, out),
         appended |-> Events(1, {s.key : s \in out}, t, sym, regime_key, z, oi15m),
         last_setup_ts |-> Stamp(last_setup_ts, sym, {s.key : s \in out}, t)]

\* A window closing at 10000 whose earlier candles made the high hi and the
\* low lo; the last candle touches the upper band ("upper": it makes the
\* high) or the lower band ("lower": it makes the low).
Window(hi, lo, touch) ==
    IF touch = "upper"
    THEN << [h |-> 10000, l |-> lo, c |-> 10000], [h |-> 10000, l |-> 10000, c |-> 10000],
            [h |-> hi, l |-> 10000, c |-> 10000] >>
    ELSE << [h |-> hi, l |-> 10000, c |-> 10000], [h |-> 10000, l |-> 10000, c |-> 10000],
            [h |-> 10000, l |-> lo, c |-> 10000] >>

\* Windows whose zones, at an ATR of 80 steps, are 0.20 % and 0.50 % apart.
Windows ==
    { Window(10030, 9970, "upper"), Window(10030, 9970, "lower"),
      Window(10045, 9955, "upper"), Window(10045, 9955, "lower") }

\* atr_from_15m of the windows, in price steps.
Atr == <<80>>

\* 15-minute price change (hundredths of a percent) and open-interest change
\* of the primary symbol: one pair or more for each branch of classify_regime.
Flows ==
    { <<0, <<>>>>, <<0, <<0 - 150>>>>, <<0, <<150>>>>, <<30, <<150>>>>,
      <<30, <<0 - 300>>>>, <<0 - 30, <<0 - 300>>>>, <<0, <<0 - 200>>>>, <<0, <<0 - 250>>>> }

\* What the fetches of lines 581-595 return when they succeed.
BtcBundles ==
    { [sym |-> SYMBOL, primary |-> TRUE, px15m |-> <<f[1]>>, oi15m |-> f[2],
       kl |-> kl, z |-> compute_zones(kl, Atr), ch |-> <<>>] :
         f \in Flows, kl \in Windows }

\* What the fetches of lines 676-682 return for a secondary symbol when they
\* succeed; ch is the 15-minute change of its anchor pair.
AltBundles(sym) ==
    { [sym |-> sym, primary |-> FALSE, kl |-> kl, z |-> compute_zones(kl, Atr),
       ch |-> ch] :
         kl \in Windows, ch \in {<<>>, <<0 - 5>>, <<5>>} }

\* A fetch that failed (lines 586-590, 597-599, 678-679, 683-684).
Down == [down |-> TRUE]

\* The variables of paper_exec.py other than the clock.
trading == <<config, open_trades, equity, px_map, todo, pc, out_rows, state_file,
             hist, born, ENTRY_PRICE_MODE, signals, offset, dedup, evts, tmp_file,
             source, evicted>>

\* Lines 578-671: the fetches of the primary symbol, its regime and setups.
BtcScan ==
    /\ apc = "scan"
    /\ cycles < MaxCycles
    /\ \E b \in BtcBundles \cup {Down} :
          /\ fetched' = b
          /\ IF b = Down
             THEN /\ apc' = "sleep"
                  /\ sent' = {}
                  /\ appended' = <<>>
                  /\ UNCHANGED <<last_setup_ts, last_emit, cyc, alt_todo>>
             ELSE LET regime_raw == classify_regime(b.px15m, b.oi15m, <<b.z.width_pct>>)
                      regime_key == norm_regime(regime_raw)
                      btc_sigs   == detect_setups(regime_key, b.kl, b.z)
                      out        == Scan(SYMBOL, TRUE, btc_sigs, regime_key, b.z, b.oi15m,
                                         <<>>, now)
                      keys       == {e.key : e \in out.sent}
                  IN  /\ sent' = out.sent
                      /\ appended' = out.appended
                      /\ last_setup_ts' = out.last_setup_ts
                      /\ last_emit' = Stamp(last_emit, SYMBOL, keys,
                                            [t |-> now, run |-> restarts])
                      /\ cyc' = [regime_key |-> regime_key, oi15m |-> b.oi15m, now |-> now]
                      /\ alt_todo' = IF regime_key \in ALT_ENABLED_BTC_REGIMES
                                     THEN SETUP_SYMBOLS ELSE <<>>
                      /\ apc' = "alt"
    /\ UNCHANGED <<trading, calls, now, OI_CONTRA_FILTER, OI_CONTRA_MIN_ABS, WATCH_ALT_BTC,
                   alerts_file, cycles, restarts>>

\* Lines 675-752: the next secondary symbol.
AltScan ==
    /\ apc = "alt"
    /\ alt_todo # <<>>
    /\ LET sym == Head(alt_todo)
       IN  \E a \in AltBundles(sym) \cup {Down} :
              /\ fetched' = a
              /\ IF a = Down
                 THEN /\ sent' = {}
                      /\ appended' = <<>>
                      /\ UNCHANGED <<last_setup_ts, last_emit>>
                 ELSE LET alt_sigs == detect_setups(cyc.regime_key, a.kl, a.z)
                          out      == Scan(sym, FALSE, alt_sigs, cyc.regime_key, a.z,
                                           cyc.oi15m, a.ch, cyc.now)
                          keys     == {e.key : e \in out.sent}
                      IN  /\ sent' = out.sent
                          /\ appended' = out.appended
                          /\ last_setup_ts' = out.last_setup_ts
                          /\ last_emit' = Stamp(last_emit, sym, keys,
                                                [t |-> cyc.now, run |-> restarts])
    /\ alt_todo' = Tail(alt_todo)
    /\ UNCHANGED <<trading, calls, now, OI_CONTRA_FILTER, OI_CONTRA_MIN_ABS, WATCH_ALT_BTC,
                   alerts_file, apc, cyc, cycles, restarts>>

\* Lines 754-763 and 266: open(STATE_PATH, "w") truncates the file.
OpenState ==
    /\ apc = "alt"
    /\ alt_todo = <<>>
    /\ alerts_file' = Torn
    /\ sent' = {}
    /\ appended' = <<>>
    /\ fetched' = <<>>
    /\ cyc' = <<>>
    /\ apc' = "dump"
    /\ UNCHANGED <<trading, calls, now, OI_CONTRA_FILTER, OI_CONTRA_MIN_ABS, WATCH_ALT_BTC,
                   last_setup_ts, alt_todo, last_emit, cycles, restarts>>

\* Line 267: json.dump writes the state, and the file is closed.
DumpState ==
    /\ apc = "dump"
    /\ alerts_file' = [last_setup_ts |-> last_setup_ts]
    /\ apc' = "sleep"
    /\ UNCHANGED <<trading, calls, now, OI_CONTRA_FILTER, OI_CONTRA_MIN_ABS, WATCH_ALT_BTC,
                   last_setup_ts, cyc, alt_todo, fetched, sent, last_emit, cycles,
                   restarts, appended>>

\* Lines 589, 598, 765-766: at least one second.
AlertsSleep ==
    /\ apc = "sleep"
    /\ \E dt \in 1..SETUP_COOLDOWN_SEC : now' = now + dt
    /\ cycles' = cycles + 1
    /\ sent' = {}
    /\ appended' = <<>>
    /\ fetched' = <<>>
    /\ cyc' = <<>>
    /\ apc' = "scan"
    /\ UNCHANGED <<trading, calls, OI_CONTRA_FILTER, OI_CONTRA_MIN_ABS, WATCH_ALT_BTC,
                   last_setup_ts, alerts_file, alt_todo, last_emit, restarts>>

\* alerts.py load_state, lines 257-262, and line 563: an unreadable file is {}.
alerts_load_state(file) ==
    IF file \in {NoFile, Torn} THEN <<>> ELSE file.last_setup_ts

\* The signal loop dies at any point and is started again: lines 558-563.
AlertsRestart ==
    /\ apc # "off"
    /\ restarts < MaxRestarts
    /\ restarts' = restarts + 1
    /\ last_setup_ts' = alerts_load_state(alerts_file)
    /\ sent' = {}
    /\ appended' = <<>>
    /\ fetched' = <<>>
    /\ cyc' = <<>>
    /\ alt_todo' = <<>>
    /\ apc' = "scan"
    /\ UNCHANGED <<trading, calls, now, OI_CONTRA_FILTER, OI_CONTRA_MIN_ABS, WATCH_ALT_BTC,
                   alerts_file, last_emit, cycles>>

GateNext ==
    \/ BtcScan
    \/ AltScan
    \/ OpenState
    \/ DumpState
    \/ AlertsSleep
    \/ AlertsRestart

\* paper_exec.py is not running.
NoExec ==
    /\ DefaultConfig
    /\ open_trades = <<>>
    /\ equity = START_EQUITY
    /\ px_map = <<>>
    /\ todo = <<>>
    /\ pc = "off"
    /\ out_rows = <<>>
    /\ state_file = NoFile
    /\ hist = <<>>
    /\ born = <<>>

\* The filters as the environment configures them (lines 73-77).
Environment ==
    \E env \in {<<TRUE, 100, {"ETHBTC"}>>, <<TRUE, 250, {}>>, <<FALSE, 250, {"ETHBTC"}>>} :
        /\ OI_CONTRA_FILTER = env[1]
        /\ OI_CONTRA_MIN_ABS = env[2]
        /\ WATCH_ALT_BTC = env[3]

\* A first start of the signal loop, the clock past the first cooldown.
GateInit ==
    /\ NoExec
    /\ NoIngest
    /\ NoCalls
    /\ now = SETUP_COOLDOWN_SEC
    /\ Environment
    /\ last_setup_ts = <<>>
    /\ alerts_file = NoFile
    /\ apc = "scan"
    /\ cyc = <<>>
    /\ alt_todo = <<>>
    /\ fetched = <<>>
    /\ sent = {}
    /\ last_emit = <<>>
    /\ cycles = 0
    /\ appended = <<>>

GateSpec == GateInit /\ [][GateNext]_vars

----------------------------------------------------------------------------
(* The functions of alerts.py called on their own, on arguments drawn from *)
(* bounded sets: inp is the call, outp what it returned.                   *)

\* Candles around a price of 10 steps, a close of 0 among them.
SmallCandles == { [h |-> h, l |-> l, c |-> c] : h \in {10, 12}, l \in {8, 10}, c \in {0, 10, 11} }

\* Windows of at most two candles, and windows longer than the lookback.
ZoneWindows ==
    {<<>>} \cup { <<k>> : k \in SmallCandles }
    \cup { <<k1, k2>> : k1 \in SmallCandles, k2 \in SmallCandles }
    \cup { <<[h |-> 20, l |-> 2, c |-> 10], k, k, k>> : k \in SmallCandles }

CallComputeZones ==
    /\ inp = <<>>
    /\ \E kl \in ZoneWindows, atr \in {<<>>, <<0>>, <<0 - 4>>, <<4>>} :
          /\ inp' = [f |-> "compute_zones", kl_1m |-> kl, atr |-> atr]
          /\ outp' = compute_zones(kl, atr)
    /\ UNCHANGED <<trading, alerts, now, restarts>>

\* The words of the labels.
Words == {"RANGE", "range", "TRANSITION", "SQUEEZE", "SHORT", "COVER", "LONG", "UNWIND",
          "DELEVERAGING", "n/a)"}

\* Labels of at most three words.
Labels ==
    {<<>>} \cup { <<a>> : a \in Words } \cup { <<a, b>> : a \in Words, b \in Words }
    \cup { <<a, b, c>> : a \in Words, b \in Words, c \in Words }

CallNormRegime ==
    /\ inp = <<>>
    /\ \E r \in Labels :
          /\ inp' = [f |-> "norm_regime", regime_raw |-> r]
          /\ outp' = norm_regime(r)
    /\ UNCHANGED <<trading, alerts, now, restarts>>

\* Price changes, open-interest changes and widths on both sides of every
\* threshold of classify_regime, and None.
PxValues == {<<>>} \cup { <<v>> : v \in {0 - 26, 0 - 25, 0 - 21, 0 - 20, 0, 20, 21, 25, 26} }
OiValues == {<<>>} \cup { <<v>> : v \in {0 - 251, 0 - 250, 0 - 201, 0 - 200, 0, 200, 201, 250, 251} }
WidthValues == {<<>>} \cup { <<[n |-> v, d |-> 1]>> : v \in {0, 30, 31} }
                     \cup { <<[n |-> 61, d |-> 2]>> }

CallClassifyRegime ==
    /\ inp = <<>>
    /\ \E px \in PxValues, oi \in OiValues, w \in WidthValues :
          /\ inp' = [f |-> "classify_regime", px15m |-> px, oi15m |-> oi, width_pct |-> w]
          /\ outp' = classify_regime(px, oi, w)
    /\ UNCHANGED <<trading, alerts, now, restarts>>

RegimeKeys == {"RANGE", "TRANSITION", "SHORT_SQUEEZE", "LONG_UNWIND", "DELEVERAGING", "UNKNOWN"}

\* The zones of a window 0.20 % wide: upper_lo is 10010 steps, lower_hi 9990.
ZoneA == compute_zones(Window(10030, 9970, "upper"), Atr)

\* Windows of three candles, the last with its high, low and close on both
\* sides of the inner bounds of ZoneA, and a window of two candles.
DetectWindows ==
    { << [h |-> 10000, l |-> 10000, c |-> 10000], [h |-> 10000, l |-> 10000, c |-> 10000],
         [h |-> h, l |-> l, c |-> c] >> :
         h \in {10009, 10010, 10011}, l \in {9989, 9990, 9991},
         c \in {9989, 9990, 9991, 10009, 10010, 10011} }
    \cup { << [h |-> 10000, l |-> 10000, c |-> 10000], [h |-> 10010, l |-> 9990, c |-> 10000] >> }

CallDetectSetups ==
    /\ inp = <<>>
    /\ \E k \in RegimeKeys, kl \in DetectWindows :
          /\ inp' = [f |-> "detect_setups", regime_key |-> k, kl_1m |-> kl, z |-> ZoneA]
          /\ outp' = detect_setups(k, kl, ZoneA)
    /\ UNCHANGED <<trading, alerts, now, restarts>>

\* Closes as safe_float returns them.
Closes == {NaN, <<0>>, <<9995>>, <<10000>>, <<10005>>}

CallPxChange ==
    /\ inp = <<>>
    /\ \E len \in {19, 20}, close_now \in Closes, close_15m \in Closes :
          /\ inp' = [f |-> "px_change_15m_from_1m", len |-> len,
                     close_now |-> close_now, close_15m |-> close_15m]
          /\ outp' = px_change_15m_from_1m(len, close_now, close_15m)
    /\ UNCHANGED <<trading, alerts, now, restarts>>

AllSignals ==
    { [key |-> "SWEEP_RECLAIM_SHORT", direction |-> "SHORT"],
      [key |-> "SWEEP_RECLAIM_LONG", direction |-> "LONG"],
      [key |-> "MEAN_REVERT_SHORT", direction |-> "SHORT"],
      [key |-> "MEAN_REVERT_LONG", direction |-> "LONG"] }

\* The loop body over whatever the detector returned, at the first cycle.
CallScan ==
    /\ inp = <<>>
    /\ \E sym \in {SYMBOL, SETUP_SYMBOLS[1]}, sigs \in SUBSET AllSignals, k \in RegimeKeys,
          kl \in {Window(10030, 9970, "upper"), Window(10045, 9955, "upper")},
          oi \in {<<>>, <<0 - 150>>, <<150>>}, ch \in {<<>>, <<0 - 5>>, <<5>>, NaN} :
          LET z == compute_zones(kl, Atr)
          IN  /\ inp' = [f |-> "scan", sym |-> sym, primary |-> sym = SYMBOL, sigs |-> sigs,
                         regime_key |-> k, z |-> z, oi15m |-> oi,
                         ch |-> IF sym = SYMBOL THEN <<>> ELSE ch]
              /\ outp' = Scan(sym, sym = SYMBOL, sigs, k, z, oi,
                              IF sym = SYMBOL THEN <<>> ELSE ch, now)
    /\ UNCHANGED <<trading, alerts, now, restarts>>

\* The call is over.
Return ==
    /\ inp # <<>>
    /\ inp' = <<>>
    /\ outp' = <<>>
    /\ UNCHANGED <<trading, alerts, now, restarts>>

FuncNext ==
    \/ Return
    \/ CallComputeZones
    \/ CallNormRegime
    \/ CallClassifyRegime
    \/ CallDetectSetups
    \/ CallPxChange
    \/ CallScan

FuncInit ==
    /\ NoExec
    /\ NoIngest
    /\ NoCalls
    /\ now = SETUP_COOLDOWN_SEC
    /\ Environment
    /\ last_setup_ts = <<>>
    /\ alerts_file = NoFile
    /\ apc = "off"
    /\ cyc = <<>>
    /\ alt_todo = <<>>
    /\ fetched = <<>>
    /\ sent = {}
    /\ last_emit = <<>>
    /\ cycles = 0
    /\ appended = <<>>

FuncSpec == FuncInit /\ [][FuncNext]_vars

----------------------------------------------------------------------------
(* Vocabulary of the properties *)

Terminal(tr) == tr.status \in {"CLOSED", "CANCELED"}

Pending(tr) == tr.status = "OPEN" /\ tr.filled_qty <= 0

Filled(tr) == tr.status = "OPEN" /\ tr.filled_qty > 0

\* The next step of the loop is the tick of trade id, with a price.
Ticking(id) == pc = "tick" /\ todo # <<>> /\ Head(todo) = id /\ Ticked(id)

\* The price of that tick.
TickPx(id) == px_map[open_trades[id].symbol]

\* A pass over the trades has ended after time t.
PassedSince(t) == pc = "tick" /\ todo = <<>> /\ t < now

Known(h) == h # Overflow

Last(h) == h[Len(h)]

----------------------------------------------------------------------------
(* C1.  A pending trade ticked at a price that touches its entry level     *)
(* (LONG: price <= entry, SHORT: price >= entry) is stored after that tick *)
(* as filled: filled_entry = entry and filled_qty = qty.                   *)
C1_EntryFillStored ==
    [][\A id \in TradeIds :
          (/\ Ticking(id)
           /\ Pending(open_trades[id])
           /\ should_fill_entry(open_trades[id].side, open_trades[id].entry, TickPx(id)))
          => (/\ open_trades'[id].filled_entry = open_trades[id].entry
              /\ open_trades'[id].filled_qty = open_trades[id].qty)]_vars

(* C2.  Once a trade is CLOSED or CANCELED no step changes any field of    *)
(* its record, so no tick changes it and its status never goes back.       *)
C2_TerminalFrozen ==
    [][\A id \in TradeIds :
          Terminal(open_trades[id]) => open_trades'[id] = open_trades[id]]_vars

\* A pass that had a price for the symbol of an ended trade has gone over it,
\* after the time it ended.
C2_Witness ==
    \E id \in TradeIds :
        /\ Terminal(open_trades[id])
        /\ PassedSince(open_trades[id].ts_closed[1])
        /\ open_trades[id].symbol \in DOMAIN px_map

(* C3.  A filled trade ticked at a price for which the stop condition and  *)
(* a take-profit condition (TP1 not yet hit, or TP2) both hold closes with *)
(* reason SL; the only PnL of the tick is that of the stop fill on the     *)
(* whole open quantity, and TP1 is not marked.                             *)
C3_StopBeforeTargets ==
    [][\A id \in TradeIds :
          LET tr == open_trades[id]
              px == TickPx(id)
              ex == IF STOP_FILL_MODE = "CAP" THEN tr.sl ELSE px
              mv == IF tr.side = "LONG" THEN ex - tr.filled_entry ELSE tr.filled_entry - ex
          IN  (/\ Ticking(id)
               /\ Filled(tr)
               /\ stop_triggered(tr.side, tr.sl, px)
               /\ \/ (~tr.tp1_hit) /\ tp1_triggered(tr.side, tr.tp1, px)
                  \/ tp2_triggered(tr.side, tr.tp2, px))
              => (/\ open_trades'[id].status = "CLOSED"
                  /\ open_trades'[id].close_reason = "SL"
                  /\ open_trades'[id].pnl_usdt = tr.pnl_usdt + mv * tr.filled_qty
                  /\ open_trades'[id].tp1_hit = tr.tp1_hit
                  /\ open_trades'[id].tp1_qty_closed = tr.tp1_qty_closed)]_vars

\* A trade closed with reason SL by a tick whose price also reached TP2.
C3_Witness ==
    \E id \in TradeIds :
        LET tr == open_trades[id]
        IN  /\ tr.close_reason = "SL"
            /\ Known(hist[id]) /\ Len(hist[id]) > 0
            /\ stop_triggered(tr.side, tr.sl, Last(hist[id]))
            /\ tp2_triggered(tr.side, tr.tp2, Last(hist[id]))

(* C4.  With the capped stop fill, a LONG trade planned with entry 100,    *)
(* stop 95 and quantity 10 that receives the ticks 100 and 94 is CLOSED    *)
(* with reason SL and pnl_usdt = (95 - 100) * 10 = -50.                    *)
C4_ScenarioA ==
    \A id \in TradeIds :
        LET tr == open_trades[id]
        IN  (/\ STOP_FILL_MODE = "CAP"
             /\ born[id] = "PENDING"
             /\ tr.side = "LONG" /\ tr.entry = 100 /\ tr.sl = 95 /\ tr.qty = 10
             /\ hist[id] = <<100, 94>>)
            => (/\ tr.status = "CLOSED"
                /\ tr.close_reason = "SL"
                /\ tr.pnl_usdt = -50)

(* C5.  With a TP1 close fraction f < 1 and no breakeven buffer, a trade   *)
(* planned pending that receives a tick touching the entry, a tick         *)
(* reaching TP1 and a tick reaching TP2 is CLOSED with reason TP2 and      *)
(* pnl_usdt = (tp1 - entry) * f * qty + (tp2 - entry) * (1 - f) * qty      *)
(* (mirrored for SHORT): 55 for entry 100, TP1 103, TP2 108, qty 10 and    *)
(* f = 1/2.                                                                *)
C5_ScenarioB ==
    \A id \in TradeIds :
        LET tr == open_trades[id]
            h  == hist[id]
            f  == TP1_CLOSE_FRAC
            sg == IF tr.side = "LONG" THEN 1 ELSE -1
        IN  (/\ f.n < f.d
             /\ BE_BUFFER_PCT.n = 0
             /\ born[id] = "PENDING"
             /\ Known(h) /\ Len(h) = 3
             /\ should_fill_entry(tr.side, tr.entry, h[1])
             /\ tp1_triggered(tr.side, tr.tp1, h[2])
             /\ tp2_triggered(tr.side, tr.tp2, h[3]))
            => (/\ tr.status = "CLOSED"
                /\ tr.close_reason = "TP2"
                /\ tr.pnl_usdt * f.d = sg * ((tr.tp1 - tr.entry) * f.n * tr.qty
                                            + (tr.tp2 - tr.entry) * (f.d - f.n) * tr.qty))

(* C6 as claimed.  A pending trade whose age has reached the entry timeout *)
(* is eventually CANCELED with pnl_usdt = 0, in every run in which the     *)
(* loop keeps running.  Read in the claim's favour: unless a tick touches  *)
(* its entry level.                                                        *)
C6_EventuallyCanceled ==
    \A id \in TradeIds :
        (Pending(open_trades[id]) /\ now - open_trades[id].ts_created >= ENTRY_TIMEOUT_SEC)
            ~> \/ open_trades[id].status = "CANCELED" /\ open_trades[id].pnl_usdt = 0
               \/ /\ Ticking(id)
                  /\ should_fill_entry(open_trades[id].side, open_trades[id].entry, TickPx(id))

(* C6 as amended.  A pending trade is CANCELED, with pnl_usdt = 0 and the  *)
(* equity unchanged, by every tick processed for it at an age of at least  *)
(* the entry timeout whose price does not touch the entry level; and a     *)
(* trade is cancelled by such a tick only.                                 *)
C6_CanceledByUntouchedTick ==
    [][\A id \in TradeIds :
          LET tr   == open_trades[id]
              late == now - tr.ts_created >= ENTRY_TIMEOUT_SEC
          IN  /\ (/\ Ticking(id) /\ Pending(tr) /\ late
                  /\ ~should_fill_entry(tr.side, tr.entry, TickPx(id)))
                 => (/\ open_trades'[id].status = "CANCELED"
                     /\ open_trades'[id].pnl_usdt = 0
                     /\ equity' = equity)
              /\ (tr.status = "OPEN" /\ open_trades'[id].status = "CANCELED")
                 => (/\ Ticking(id) /\ Pending(tr) /\ late
                     /\ ~should_fill_entry(tr.side, tr.entry, TickPx(id)))]_vars

\* The live trade was cancelled by this run, by a tick that did not touch its
\* entry, after ticks that did not cancel it.
C6_Witness ==
    LET tr == open_trades[2]
    IN  /\ tr.status = "CANCELED" /\ tr.pnl_usdt = 0 /\ equity = START_EQUITY
        /\ tr.ts_closed[1] - tr.ts_created >= ENTRY_TIMEOUT_SEC
        /\ Known(hist[2]) /\ Len(hist[2]) > 1
        /\ ~should_fill_entry(tr.side, tr.entry, Last(hist[2]))

(* C7.  The equity changes only in a step that closes a trade (status OPEN *)
(* to CLOSED: SL, TP1_FULL or TP2), and then by that trade's cumulative    *)
(* pnl_usdt; a step that cancels a trade, fills an entry or takes a        *)
(* partial TP1 leaves it unchanged.  An ended trade is never ticked again  *)
(* (C2), so each trade is credited once.                                   *)
C7_EquityOnlyAtClosure ==
    [][/\ \A id \in TradeIds :
             (open_trades[id].status = "OPEN" /\ open_trades'[id].status = "CLOSED")
             => (/\ equity' = equity + open_trades'[id].pnl_usdt
                 /\ open_trades'[id].close_reason \in {"SL", "TP1_FULL", "TP2"})
       /\ (\A id \in TradeIds :
              ~(open_trades[id].status = "OPEN" /\ open_trades'[id].status = "CLOSED"))
          => equity' = equity]_vars

\* A trade that took a partial TP1 and later closed: the equity holds its
\* whole PnL, increment of the partial close included, once.
C7_Witness ==
    \E id \in TradeIds :
        LET tr == open_trades[id]
        IN  /\ tr.status = "CLOSED" /\ tr.tp1_hit /\ tr.close_reason = "TP2"
            /\ tr.tp1_qty_closed > 0 /\ tr.tp1_qty_closed < tr.qty
            /\ tr.pnl_usdt > 0
            /\ equity = START_EQUITY + tr.pnl_usdt

(* C8.  Once tp1_hit is set, no step takes another TP1 partial close: the  *)
(* flag stays set, tp1_qty_closed does not change, and the open quantity   *)
(* and the PnL change only in the step that closes the trade, with reason  *)
(* SL or TP2.                                                              *)
C8_Tp1Once ==
    [][\A id \in TradeIds :
          LET tr == open_trades[id]
              nx == open_trades'[id]
          IN  tr.tp1_hit
              => (/\ nx.tp1_hit
                  /\ nx.tp1_qty_closed = tr.tp1_qty_closed
                  /\ (nx.filled_qty # tr.filled_qty \/ nx.pnl_usdt # tr.pnl_usdt)
                     => (/\ tr.status = "OPEN" /\ nx.status = "CLOSED"
                         /\ nx.close_reason \in {"SL", "TP2"}))]_vars

\* A trade still open after its partial TP1 and a later tick at or beyond
\* TP1, with one TP1 fraction closed.
C8_Witness ==
    \E id \in TradeIds :
        LET tr == open_trades[id]
            h  == hist[id]
        IN  /\ Filled(tr) /\ tr.tp1_hit
            /\ Known(h) /\ Len(h) >= 2
            /\ tp1_triggered(tr.side, tr.tp1, h[Len(h) - 1])
            /\ tp1_triggered(tr.side, tr.tp1, Last(h))
            /\ tr.tp1_qty_closed * TP1_CLOSE_FRAC.d = tr.qty * TP1_CLOSE_FRAC.n
            /\ tr.filled_qty = tr.qty - tr.tp1_qty_closed

\* The tick of trade id takes the TP1 branch.
Tp1Tick(id) ==
    LET tr == open_trades[id]
    IN  /\ Ticking(id) /\ Filled(tr)
        /\ ~stop_triggered(tr.side, tr.sl, TickPx(id))
        /\ ~tr.tp1_hit
        /\ tp1_triggered(tr.side, tr.tp1, TickPx(id))

(* C9 as claimed.  After a TP1 tick that closes only part of the position, *)
(* the stop equals filled_entry * (1 + buffer) for LONG and                *)
(* filled_entry * (1 - buffer) for SHORT when breakeven-on-TP1 is enabled, *)
(* and is unchanged when it is disabled.                                   *)
C9_StopAtBufferedEntry ==
    [][\A id \in TradeIds :
          LET tr == open_trades[id]
              nx == open_trades'[id]
              b  == BE_BUFFER_PCT
              k  == IF tr.side = "LONG" THEN b.d + b.n ELSE b.d - b.n
          IN  (Tp1Tick(id) /\ nx.filled_qty > 0)
              => IF MOVE_SL_TO_BE_ON_TP1
                 THEN nx.sl * b.d = tr.filled_entry * k
                 ELSE nx.sl = tr.sl]_vars

(* C9 as amended.  After a TP1 tick that closes only part of the position, *)
(* the stop is filled_entry * (1 + buffer) for LONG and                    *)
(* filled_entry * (1 - buffer) for SHORT rounded to the price grid of 4    *)
(* decimals (the grid point nearest to it) when breakeven-on-TP1 is        *)
(* enabled, and is unchanged when it is disabled.                          *)
C9_StopAtRoundedBufferedEntry ==
    [][\A id \in TradeIds :
          LET tr == open_trades[id]
              nx == open_trades'[id]
              b  == BE_BUFFER_PCT
              k  == IF tr.side = "LONG" THEN b.d + b.n ELSE b.d - b.n
              e  == nx.sl * b.d - tr.filled_entry * k
          IN  (Tp1Tick(id) /\ nx.filled_qty > 0)
              => IF MOVE_SL_TO_BE_ON_TP1
                 THEN -b.d <= 2 * e /\ 2 * e <= b.d
                 ELSE nx.sl = tr.sl]_vars

\* A trade open after its partial TP1 whose stop was moved to the buffered
\* entry, off the exact product.
C9_Witness ==
    \E id \in TradeIds :
        LET tr == open_trades[id]
            b  == BE_BUFFER_PCT
            k  == IF tr.side = "LONG" THEN b.d + b.n ELSE b.d - b.n
        IN  /\ Filled(tr) /\ tr.tp1_hit /\ MOVE_SL_TO_BE_ON_TP1 /\ b.n > 0
            /\ Known(hist[id]) /\ Len(hist[id]) = 1
            /\ tr.sl * b.d # tr.filled_entry * k
            /\ (tr.side = "LONG" => tr.sl > tr.filled_entry)
            /\ (tr.side = "SHORT" => tr.sl < tr.filled_entry)

(* C10.  With a TP1 close fraction of 1 or more, the TP1 tick closes the   *)
(* trade itself: status CLOSED, reason TP1_FULL, nothing left open, the    *)
(* whole quantity realized at the TP1 level and the equity credited with   *)
(* the trade's PnL; and a trade closed with reason TP1_FULL keeps that     *)
(* reason.                                                                 *)
C10_Tp1Full ==
    [][\A id \in TradeIds :
          LET tr == open_trades[id]
              nx == open_trades'[id]
              mv == IF tr.side = "LONG" THEN tr.tp1 - tr.filled_entry
                    ELSE tr.filled_entry - tr.tp1
          IN  /\ (Tp1Tick(id) /\ TP1_CLOSE_FRAC.n >= TP1_CLOSE_FRAC.d)
                 => (/\ nx.status = "CLOSED"
                     /\ nx.close_reason = "TP1_FULL"
                     /\ nx.filled_qty = 0
                     /\ nx.pnl_usdt = tr.pnl_usdt + mv * tr.filled_qty
                     /\ equity' = equity + nx.pnl_usdt)
              /\ tr.close_reason = "TP1_FULL"
                 => (nx.close_reason = "TP1_FULL" /\ nx.status = "CLOSED")]_vars

\* A trade closed with reason TP1_FULL by a fraction above 1; a later pass
\* has run.
C10_Witness ==
    \E id \in TradeIds :
        LET tr == open_trades[id]
        IN  /\ tr.close_reason = "TP1_FULL" /\ tr.status = "CLOSED"
            /\ TP1_CLOSE_FRAC.n > TP1_CLOSE_FRAC.d
            /\ tr.tp1_qty_closed = tr.qty
            /\ equity = START_EQUITY + tr.pnl_usdt /\ tr.pnl_usdt > 0
            /\ PassedSince(tr.ts_closed[1])

----------------------------------------------------------------------------
(* Vocabulary of the ingest properties *)

\* The trades planned from the event identity k.
TradesOf(k) == {id \in DOMAIN open_trades : open_trades[id].key = k}

\* The step plans trade id: the loop body of lines 393-412 stores it.
NewlyPlanned(id) ==
    /\ pc = "plan"
    /\ pc' = "plan"
    /\ evts # <<>>
    /\ id \in DOMAIN open_trades'
    /\ (id \notin DOMAIN open_trades \/ open_trades'[id] # open_trades[id])

(* C11.  Whatever restarts happen, an event identity (ts, symbol_raw,      *)
(* setup) that has not been trimmed off the dedup list has at most one     *)
(* trade planned from it in open_trades.                                   *)
C11_NoDoublePlan ==
    \A e \in source :
        dedup_key(e) \notin evicted => Cardinality(TradesOf(dedup_key(e))) <= 1

\* After a restart the loop has read, from the cursor of the state file, a
\* batch that repeats the identity of a trade of the state file, and holds one
\* trade of that identity.
C11_Witness ==
    /\ restarts > 0
    /\ pc = "plan"
    /\ evts = <<>>
    /\ state_file \notin {NoFile, Torn}
    /\ state_file.offset < offset
    /\ \E i \in (state_file.offset + 1)..offset :
          LET k == dedup_key(signals[i])
          IN  /\ k \notin evicted
              /\ \E id \in DOMAIN state_file.open_trades :
                    state_file.open_trades[id].key = k
              /\ Cardinality(TradesOf(k)) = 1

\* The step runs the loop body of lines 393-412 on the next event.
Planning == pc = "plan" /\ pc' = "plan" /\ evts # <<>>

\* The trade as the entry fill of lines 445-448 makes it.
FilledAtEntry(tr) == EntryStep(tr, tr.entry, equity, now).tr

(* C18.  A trade the planner produces has qty > 0 as stored; an event      *)
(* planned with non-positive equity, or whose stop equals its entry        *)
(* (per-unit risk 0), produces no trade.                                   *)
C18_StoredQtyPositive ==
    [][/\ \A id \in DOMAIN open_trades' : NewlyPlanned(id) => open_trades'[id].qty > 0
       /\ (Planning /\ (equity <= 0 \/ PlanLevels(Head(evts)).risk = 0))
             => open_trades' = open_trades]_vars

(* C19.  Both targets of a planned trade, as stored, are strictly beyond   *)
(* its stored entry in the favourable direction: above for LONG, below for *)
(* SHORT.                                                                  *)
C19_TargetsBeyondEntry ==
    [][\A id \in DOMAIN open_trades' :
          NewlyPlanned(id) =>
             LET tr == open_trades'[id]
             IN  IF tr.side = "LONG"
                 THEN tr.tp1 > tr.entry /\ tr.tp2 > tr.entry
                 ELSE tr.tp1 < tr.entry /\ tr.tp2 < tr.entry]_vars

(* C20, as claimed.  A planned trade has filled_qty = 0, filled_entry = 0, *)
(* tp1_hit false and pnl_usdt = 0, and its status differs from the status  *)
(* of the same trade once filled.                                          *)
C20_PendingByStatus ==
    [][\A id \in DOMAIN open_trades' :
          NewlyPlanned(id) =>
             LET tr == open_trades'[id]
             IN  /\ tr.filled_qty = 0 /\ tr.filled_entry = 0
                 /\ ~tr.tp1_hit /\ tr.pnl_usdt = 0
                 /\ tr.status # FilledAtEntry(tr).status]_vars

(* C20, amended.  A planned trade has status OPEN, filled_qty = 0,         *)
(* filled_entry = 0, tp1_hit false and pnl_usdt = 0; once filled it still  *)
(* has status OPEN and differs by filled_qty = qty and filled_entry =      *)
(* entry.                                                                  *)
C20_PendingByFilledQty ==
    [][\A id \in DOMAIN open_trades' :
          NewlyPlanned(id) =>
             LET tr == open_trades'[id]
             IN  /\ tr.status = "OPEN"
                 /\ tr.filled_qty = 0 /\ tr.filled_entry = 0
                 /\ ~tr.tp1_hit /\ tr.pnl_usdt = 0
                 /\ Pending(tr)
                 /\ FilledAtEntry(tr).status = "OPEN"
                 /\ FilledAtEntry(tr).filled_qty = tr.qty
                 /\ FilledAtEntry(tr).filled_entry = tr.entry]_vars

\* A trade has just been planned, with a positive quantity.
C20_Witness ==
    /\ pc = "plan"
    /\ \E id \in DOMAIN open_trades :
          /\ open_trades[id].status = "OPEN"
          /\ open_trades[id].ts_created = now
          /\ open_trades[id].qty > 0


----------------------------------------------------------------------------
(* Properties of the signal loop *)

\* A scan of a symbol has just run on fetched data.
Scanned == apc = "alt" /\ fetched # <<>> /\ fetched # Down

\* The SetupSignals detect_setups returned in the scan that has just run.
Detected == detect_setups(cyc.regime_key, fetched.kl, fetched.z)

SentKeys == {e.key : e \in sent}

\* C12: every state file on disk is complete at every moment a crash can
\* occur: neither loop's save leaves a truncated or partially written file in
\* place of the previous snapshot.
C12_SnapshotsComplete == alerts_file # Torn /\ state_file # Torn

\* C13: a signal is sent for a (symbol, setup key) pair only if the cooldown
\* interval has passed since the last signal sent for that pair.
C13_CooldownBetweenEmissions ==
    [][\A e \in sent' :
          <<e.sym, e.key>> \in DOMAIN last_emit
             => now' - last_emit[<<e.sym, e.key>>].t >= SETUP_COOLDOWN_SEC]_vars

\* C15: no mean-revert signal is sent for a symbol whose zone width_pct is
\* above MEAN_REVERT_MAX_WIDTH_PCT.
C15_NoMeanRevertOnWideZone ==
    \A e \in sent :
        e.key \in MeanRevertKeys
           => fetched.z.width_pct.n <= MEAN_REVERT_MAX_WIDTH_PCT * fetched.z.width_pct.d

\* A zone wider than the cap on which a mean-revert setup was detected in an
\* allowed regime with an open-interest change that passes: nothing of it is sent.
C15_Witness ==
    /\ Scanned
    /\ fetched.z.width_pct.n > MEAN_REVERT_MAX_WIDTH_PCT * fetched.z.width_pct.d
    /\ \E s \in Detected :
          /\ s.key \in MeanRevertKeys
          /\ s.key \in ALLOWED_SETUPS(cyc.regime_key)
          /\ OI_CONTRA_FILTER
          /\ cyc.oi15m # <<>>
          /\ Abs(cyc.oi15m[1]) >= OI_CONTRA_MIN_ABS
          /\ s.key \notin SentKeys

\* C16: with the contra filter on and an open-interest change present, the
\* quality filter passes a mean-revert LONG only at a change <= -min_abs and a
\* SHORT only at a change >= +min_abs, and so for every mean-revert signal
\* sent; with the filter off or no change present, it passes exactly by width.
C16_ContraFilter ==
    Scanned =>
        /\ \A d \in {"LONG", "SHORT"} :
              LET ok == mean_revert_ok(fetched.z, cyc.oi15m, d)
              IN  IF OI_CONTRA_FILTER /\ cyc.oi15m # <<>>
                  THEN ok => /\ d = "LONG" => cyc.oi15m[1] <= 0 - OI_CONTRA_MIN_ABS
                             /\ d = "SHORT" => cyc.oi15m[1] >= OI_CONTRA_MIN_ABS
                  ELSE ok <=> PctLe(fetched.z.width_pct, MEAN_REVERT_MAX_WIDTH_PCT)
        /\ \A e \in sent :
              e.key \in MeanRevertKeys /\ OI_CONTRA_FILTER /\ cyc.oi15m # <<>>
                 => /\ e.direction = "LONG" => cyc.oi15m[1] <= 0 - OI_CONTRA_MIN_ABS
                    /\ e.direction = "SHORT" => cyc.oi15m[1] >= OI_CONTRA_MIN_ABS

\* A mean-revert LONG sent with the filter on at a change <= -min_abs, the
\* change being present.
C16_Witness ==
    /\ Scanned
    /\ OI_CONTRA_FILTER
    /\ cyc.oi15m # <<>>
    /\ cyc.oi15m[1] <= 0 - OI_CONTRA_MIN_ABS
    /\ "MEAN_REVERT_LONG" \in SentKeys

\* Within one run of the signal loop the cooldown holds: a signal of the run
\* follows the last signal of the same pair in the same run by the interval.
CooldownWithinRun ==
    [][\A e \in sent' :
          (/\ <<e.sym, e.key>> \in DOMAIN last_emit
           /\ last_emit[<<e.sym, e.key>>].run = restarts')
             => now' - last_emit[<<e.sym, e.key>>].t >= SETUP_COOLDOWN_SEC]_vars

\* A mean-revert setup repeated on the primary symbol within the cooldown of
\* the signal sent for it earlier in the run, all filters passing: it is
\* suppressed.
Suppressed ==
    /\ Scanned
    /\ fetched.primary
    /\ \E s \in Detected :
          /\ s.key \in ALLOWED_SETUPS(cyc.regime_key)
          /\ mean_revert_ok(fetched.z, cyc.oi15m, s.direction)
          /\ <<fetched.sym, s.key>> \in DOMAIN last_emit
          /\ last_emit[<<fetched.sym, s.key>>].run = restarts
          /\ last_emit[<<fetched.sym, s.key>>].t < now
          /\ s.key \notin SentKeys

----------------------------------------------------------------------------
(* Properties of the loop body of the signal loop, over whatever the       *)
(* detector returned                                                       *)

\* Function f has been called and has returned.
Called(f) == inp # <<>> /\ inp.f = f

\* C14: every signal sent has a setup key allowed in the regime key of the
\* cycle: none in TRANSITION and UNKNOWN, the short sweep alone in
\* SHORT_SQUEEZE, the long sweep alone in LONG_UNWIND.
C14_OnlyAllowedSetups ==
    Called("scan") =>
        \A e \in outp.sent :
            /\ inp.regime_key \notin {"TRANSITION", "UNKNOWN"}
            /\ inp.regime_key = "SHORT_SQUEEZE" => e.key = "SWEEP_RECLAIM_SHORT"
            /\ inp.regime_key = "LONG_UNWIND" => e.key = "SWEEP_RECLAIM_LONG"
            /\ e.key \in SetupKeys

\* A transition in which the detector returned every setup: nothing is sent.
C14_Witness ==
    /\ Called("scan")
    /\ inp.regime_key = "TRANSITION"
    /\ inp.sigs = AllSignals
    /\ outp.sent = {}

C21_OnlyMeanRevertEvents ==
    Called("scan") =>
        /\ \A i \in 1..Len(outp.appended) :
              outp.appended[i].setup \in {"MEAN_REVERT_LOWER_TOUCH_LONG",
                                          "MEAN_REVERT_UPPER_TOUCH_SHORT"}
        /\ Len(outp.appended) = Cardinality({e \in outp.sent : e.key \in MeanRevertKeys})
        /\ \A e \in outp.sent :
              /\ <<e.sym, e.key>> \in DOMAIN outp.last_setup_ts
              /\ outp.last_setup_ts[<<e.sym, e.key>>] = now

\* Two sweep signals sent and stamped, and no line appended.
C21_Witness ==
    /\ Called("scan")
    /\ {e.key : e \in outp.sent} = {"SWEEP_RECLAIM_SHORT", "SWEEP_RECLAIM_LONG"}
    /\ DOMAIN outp.last_setup_ts = {<<inp.sym, "SWEEP_RECLAIM_SHORT">>,
                                    <<inp.sym, "SWEEP_RECLAIM_LONG">>}
    /\ outp.appended = <<>>

\* C28: a close that is not a number is unavailable to the 15-minute change,
\* which is then None, and no mean-revert signal is sent for a secondary
\* symbol on a 15-minute change of its tracked anchor pair that is not a
\* number.
C28_NaNFailsClosed ==
    /\ (/\ Called("px_change_15m_from_1m")
        /\ (inp.close_now = NaN \/ inp.close_15m = NaN))
           => outp = <<>>
    /\ (/\ Called("scan")
        /\ ~inp.primary
        /\ AltBtc(inp.sym) \in WATCH_ALT_BTC
        /\ inp.ch = NaN)
           => \A e \in outp.sent : e.key \notin MeanRevertKeys

----------------------------------------------------------------------------
(* Properties of the functions of alerts.py *)

KeyRank == <<"RANGE", "TRANSITION", "SHORT_SQUEEZE", "LONG_UNWIND", "DELEVERAGING">>

Keyword(r, i) ==
    IF i = 1 THEN Has(r, <<"RANGE">>)
    ELSE IF i = 2 THEN Has(r, <<"TRANSITION">>)
    ELSE IF i = 3 THEN Has(r, <<"SQUEEZE">>) \/ Has(r, <<"SHORT", "COVER">>)
    ELSE IF i = 4 THEN Has(r, <<"LONG", "UNWIND">>)
    ELSE Has(r, <<"DELEVERAGING">>)

\* C23: norm_regime maps every label to one of the six regime keys: to the
\* key of the first keyword, in the order RANGE, TRANSITION, SQUEEZE or SHORT
\* COVER, LONG UNWIND, DELEVERAGING, that the label holds, and to UNKNOWN when
\* it holds none.
C23_NormRegimePrecedence ==
    Called("norm_regime") =>
        LET r == inp.regime_raw
        IN  /\ outp \in RegimeKeys
            /\ \A i \in 1..5 :
                  (Keyword(r, i) /\ \A j \in 1..(i - 1) : ~Keyword(r, j)) => outp = KeyRank[i]
            /\ (\A i \in 1..5 : ~Keyword(r, i)) => outp = "UNKNOWN"

\* A label with the keywords DELEVERAGING and LONG UNWIND, mapped to LONG_UNWIND.
C23_Witness ==
    /\ Called("norm_regime")
    /\ Keyword(inp.regime_raw, 4)
    /\ Keyword(inp.regime_raw, 5)
    /\ outp = "LONG_UNWIND"


\* The rules of the regime classifier, in their order: whether rule i matches
\* the arguments, and its label.
RuleMatches(i, px, oi, w) ==
    IF i = 1 THEN px = <<>> \/ w = <<>>
    ELSE IF i = 2 THEN oi = <<>> /\ PctLe(w[1], 30) /\ px[1] >= 0 - 25 /\ px[1] <= 25
    ELSE IF i = 3 THEN oi = <<>>
    ELSE IF i = 4 THEN oi[1] < 0 - 250 /\ px[1] < 0 - 20
    ELSE IF i = 5 THEN oi[1] < 0 - 250 /\ px[1] > 20
    ELSE IF i = 6 THEN /\ PctLe(w[1], 30)
                       /\ px[1] >= 0 - 25 /\ px[1] <= 25
                       /\ oi[1] >= 0 - 200 /\ oi[1] <= 200
    ELSE TRUE

RuleLabel ==
    << <<"UNKNOWN">>, <<"RANGE", "/", "CHOP", "(OI", "n/a)">>, <<"TRANSITION", "(OI", "n/a)">>,
       <<"DELEVERAGING", "/", "LONG", "UNWIND">>, <<"SHORT", "COVER", "/", "SQUEEZE">>,
       <<"RANGE", "/", "CHOP">>, <<"TRANSITION">> >>

RECURSIVE FirstRule(_, _, _, _)
\* The first rule from i on that matches.
FirstRule(i, px, oi, w) ==
    IF RuleMatches(i, px, oi, w) THEN i ELSE FirstRule(i + 1, px, oi, w)

\* C24: classify_regime returns the label of the first rule that matches, in
\* the order unknown, range without OI, transition without OI, long unwind,
\* short squeeze, range, transition; without an open-interest change and with
\* the price change and the width present it returns one of the two labels
\* without OI.
C24_FirstRuleWins ==
    Called("classify_regime") =>
        /\ outp = RuleLabel[FirstRule(1, inp.px15m, inp.oi15m, inp.width_pct)]
        /\ (inp.oi15m = <<>> /\ inp.px15m # <<>> /\ inp.width_pct # <<>>)
              => outp \in {RuleLabel[2], RuleLabel[3]}
        /\ inp.oi15m = <<>> => outp \notin {RuleLabel[4], RuleLabel[5]}

\* A change of open interest of exactly -250 with a falling price is no long
\* unwind: the label is TRANSITION.
C24_Witness ==
    /\ Called("classify_regime")
    /\ inp.oi15m = <<0 - 250>>
    /\ inp.px15m = <<0 - 21>>
    /\ inp.width_pct # <<>>
    /\ outp = <<"TRANSITION">>


----------------------------------------------------------------------------
(* Properties of the ingestion of the event log *)

\* The step is the call of read_signals_tail of line 389.
Reading == pc = "read" /\ pc' = "plan"

\* The lines after the cursor.
Unread == SubSeq(signals, offset + 1, Len(signals))

\* C25: a read returns every well-formed line after the cursor, in order and
\* nothing else, whatever malformed lines stand before them, and leaves the
\* cursor at the end of the file, past every malformed line.
C25_MalformedSkipped ==
    [][Reading =>
          /\ evts' = SelectSeq(Unread, IsEvent)
          /\ \A i \in 1..Len(signals) :
                /\ (i > offset /\ IsEvent(signals[i])) =>
                       \E j \in 1..Len(evts') : evts'[j] = signals[i]
                /\ ~IsEvent(signals[i]) => offset' >= i]_vars

\* The first read of a run has returned an event that follows a malformed
\* line, and the cursor is behind both.
C25_Witness ==
    /\ pc = "plan"
    /\ restarts = 0
    /\ state_file = NoFile
    /\ \E i \in 1..offset, j \in 1..offset :
          /\ i < j
          /\ ~IsEvent(signals[i])
          /\ IsEvent(signals[j])
          /\ evts # <<>>
          /\ evts[Len(evts)] = signals[j]

\* The step is one pass of the body of `for evt in evts` (lines 393-412).
Ingesting == pc = "plan" /\ pc' = "plan" /\ evts # <<>> /\ evts' = Tail(evts)

\* The keys of a list.
Keys(arr) == {arr[i] : i \in DOMAIN arr}

\* C29: st["dedup"] never holds more than DEDUP_WINDOW keys nor a key twice;
\* an event whose key is in the list is rejected and plans nothing, the list
\* unchanged; an accepted key goes to the end of the list, and the keys that
\* leave it are its oldest, as few as the window requires.
C29_DedupFifo ==
    [][/\ Len(dedup') <= DEDUP_WINDOW
       /\ Cardinality(Keys(dedup')) = Len(dedup')
       /\ Ingesting =>
             LET key == dedup_key(Head(evts))
             IN  IF key \in Keys(dedup)
                 THEN dedup' = dedup /\ open_trades' = open_trades
                 ELSE \E n \in 0..Len(dedup) :
                         /\ dedup' = Append(SubSeq(dedup, n + 1, Len(dedup)), key)
                         /\ (n > 0 => Len(dedup') = DEDUP_WINDOW)]_vars

\* A full list whose oldest key has left it for a third key, the two newer
\* keys kept in the order of their arrival.
C29_Witness ==
    /\ Len(dedup) = DEDUP_WINDOW
    /\ dedup[1][1] < dedup[2][1]
    /\ \E k \in evicted : k \notin Keys(dedup) /\ k[1] < dedup[1][1]

----------------------------------------------------------------------------
(* Properties of the trade log and of the persistence of the tick loop *)

\* The fields of CSV_HEADER (lines 361-365) that the Trade of the model has.
CSV_HEADER ==
    {"ts_created", "ts_closed", "symbol", "side", "status", "entry", "sl", "tp1", "tp2",
     "qty", "filled_entry", "filled_qty", "tp1_hit", "tp1_qty_closed", "pnl_usdt",
     "pnl_pct_equity", "close_reason"}

\* The step is the loop body on the next trade of the pass.
NextTrade == pc = "tick" /\ todo # <<>> /\ todo' = Tail(todo)

\* The step takes trade id from OPEN to CLOSED or CANCELED.
Terminates(id) ==
    /\ open_trades[id].status = "OPEN"
    /\ open_trades'[id].status \in {"CLOSED", "CANCELED"}

\* C26: a tick that takes a trade from OPEN to CLOSED (SL, TP1_FULL, TP2) or
\* CANCELED (entry timeout) appends one row, the trade as open_trades then
\* holds it, with every column of the table and pnl_pct_equity the percentage
\* of the equity before the close; any other step appends nothing.
C26_RowPerTerminalTransition ==
    [][IF NextTrade /\ Terminates(Head(todo))
       THEN LET id  == Head(todo)
                row == open_trades'[id]
            IN  /\ out_rows' = Append(out_rows, [trade_id |-> id, row |-> row])
                /\ DOMAIN row = CSV_HEADER
                /\ row.close_reason \in {"SL", "TP1_FULL", "TP2", "ENTRY_TIMEOUT"}
                /\ row.pnl_pct_equity =
                      IF row.status = "CANCELED" THEN [n |-> 0, d |-> 1]
                      ELSE PnlPct(row.pnl_usdt, equity)
       ELSE out_rows' = out_rows]_vars

\* A trade that took part of its profit at TP1, a tick that appended no row,
\* and was later stopped: its row is the one row appended since the start.
C26_Witness ==
    /\ Len(out_rows) = 2
    /\ out_rows[2].row.close_reason = "SL"
    /\ out_rows[2].row.tp1_hit
    /\ open_trades[out_rows[2].trade_id] = out_rows[2].row

\* The trades of the pass the loop has gone through.
Done == TradeIds \ {todo[i] : i \in DOMAIN todo}

\* C27: when the loop turns to the next trade of a pass, the state file holds
\* every trade it has gone through as open_trades holds it, and the equity.
C27_PersistedBeforeNext ==
    (pc = "tick" /\ todo # <<>>) =>
        /\ \A id \in Done : state_file.open_trades[id] = open_trades[id]
        /\ state_file.equity = equity

----------------------------------------------------------------------------
(* Properties of the signal loop under its default thresholds *)

\* OI_CONTRA_FILTER on and OI_CONTRA_MIN_ABS 250 (lines 73-74).
DefaultThresholds == OI_CONTRA_FILTER /\ OI_CONTRA_MIN_ABS = 250

\* C31: under the default thresholds a mean-revert signal is sent only in a
\* cycle without an open-interest change, and every line appended to the event
\* log has oi15m absent.
C31_NoMeanRevertWithOi ==
    DefaultThresholds =>
        /\ \A e \in sent : e.key \in MeanRevertKeys => cyc.oi15m = <<>>
        /\ \A i \in 1..Len(appended) : appended[i].oi15m = <<>>

\* Under the default thresholds, a range cycle with an open-interest change in
\* which a mean-revert setup is detected on a zone narrower than the cap:
\* nothing is sent.
C31_Witness ==
    /\ Scanned
    /\ DefaultThresholds
    /\ cyc.regime_key = "RANGE"
    /\ cyc.oi15m # <<>>
    /\ PctLe(fetched.z.width_pct, MEAN_REVERT_MAX_WIDTH_PCT)
    /\ \E s \in Detected : s.key \in MeanRevertKeys
    /\ sent = {}

\* C32: the regime key of a cycle is never DELEVERAGING (the label
\* DELEVERAGING / LONG UNWIND of the classifier normalizes to LONG_UNWIND); a
\* mean-revert signal is sent only in a cycle whose regime key is RANGE, and
\* every line appended to the event log has the regime RANGE_CHOP.
C32_EventsAreRangeChop ==
    /\ cyc # <<>> => cyc.regime_key # "DELEVERAGING"
    /\ \A e \in sent : e.key \in MeanRevertKeys => cyc.regime_key = "RANGE"
    /\ \A i \in 1..Len(appended) : appended[i].regime = "RANGE_CHOP"

\* A cycle the classifier labels DELEVERAGING / LONG UNWIND has the regime key
\* LONG_UNWIND, and appends nothing.
C32_Witness ==
    /\ Scanned
    /\ fetched.primary
    /\ Has(classify_regime(fetched.px15m, fetched.oi15m, <<fetched.z.width_pct>>),
           <<"DELEVERAGING">>)
    /\ cyc.regime_key = "LONG_UNWIND"
    /\ appended = <<>>

----------------------------------------------------------------------------
(* Properties of the quantities and of the ledger of the tick loop *)

\* C33: every trade of open_trades has 0 <= filled_qty <= qty and
\* tp1_qty_closed >= 0; a trade that was filled and has not closed at TP2 has
\* filled_qty + tp1_qty_closed = qty, so that the quantity closed at TP1 and
\* the remainder closed at the stop or at TP2 never add up to more than qty.
C33_QuantitiesConserved ==
    \A id \in TradeIds :
        LET tr == open_trades[id]
        IN  /\ 0 <= tr.filled_qty
            /\ tr.filled_qty <= tr.qty
            /\ tr.tp1_qty_closed >= 0
            /\ tr.tp1_qty_closed <= tr.qty
            /\ (tr.filled_entry > 0 /\ tr.close_reason # "TP2")
                  => tr.filled_qty + tr.tp1_qty_closed = tr.qty
            /\ tr.close_reason = "TP2" => tr.filled_qty = 0

\* A trade that closed part of its quantity at TP1 and was stopped on the
\* rest.
C33_Witness ==
    \E id \in TradeIds :
        LET tr == open_trades[id]
        IN  /\ tr.close_reason = "SL"
            /\ tr.tp1_qty_closed > 0
            /\ tr.filled_qty > 0
            /\ tr.filled_qty + tr.tp1_qty_closed = tr.qty

RECURSIVE ClosedPnl(_, _)
\* The sum of pnl_usdt over the trades of dict d, ids in S, with status CLOSED.
ClosedPnl(d, S) ==
    IF S = {} THEN 0
    ELSE LET id == CHOOSE x \in S : TRUE
         IN  (IF d[id].status = "CLOSED" THEN d[id].pnl_usdt ELSE 0) + ClosedPnl(d, S \ {id})

\* C34: the equity is the starting equity plus the pnl_usdt of the CLOSED
\* trades, in memory at every step and in the state file a cycle has saved;
\* the PnL a still-open trade took at TP1 is in its pnl_usdt and not in the
\* equity.
C34_EquityIsClosedPnl ==
    /\ equity = START_EQUITY + ClosedPnl(open_trades, TradeIds)
    /\ state_file.equity = START_EQUITY + ClosedPnl(state_file.open_trades, TradeIds)
    /\ pc = "sleep" => state_file.equity = equity

\* The end of a cycle with one trade closed at a loss and the other open
\* after its partial TP1: the equity holds the loss alone.
C34_Witness ==
    /\ pc = "sleep"
    /\ \E a \in TradeIds, b \in TradeIds :
          /\ open_trades[a].status = "CLOSED"
          /\ open_trades[a].pnl_usdt < 0
          /\ open_trades[b].status = "OPEN"
          /\ open_trades[b].tp1_hit
          /\ open_trades[b].pnl_usdt > 0
          /\ equity = START_EQUITY + open_trades[a].pnl_usdt
          /\ state_file.equity = equity


(***************************************************************************)
(* Properties of the ingest step and of the planner                        *)
(***************************************************************************)

\* The trades of dict d on symbol sym that are neither CLOSED nor CANCELED.
NonTerminal(d, sym) ==
    {id \in DOMAIN d : d[id].symbol = sym /\ d[id].status \notin {"CLOSED", "CANCELED"}}

\* The next event of the batch is new to the dedup list and its symbol is at
\* the limit (lines 394 and 403-405).
Blocked ==
    /\ evts # <<>>
    /\ dedup_key(Head(evts)) \notin Keys(dedup)
    /\ Cardinality(NonTerminal(open_trades, Head(evts).symbol)) >= MAX_OPEN_TRADES_PER_SYMBOL

\* C35: no symbol ever has more than MAX_OPEN_TRADES_PER_SYMBOL trades that
\* are pending or filled; an event ingested while its symbol is at the limit
\* plans no trade and leaves its key on the dedup list; a trade is only ever
\* planned from an event whose key is not on the list; and when trades end
\* nothing is put back in the batch, the cursor, which never moves back
\* within a run, staying past the blocked line.
C35_CapPerSymbol ==
    [][/\ \A e \in ExecEvents :
             Cardinality(NonTerminal(open_trades', e.symbol)) <= MAX_OPEN_TRADES_PER_SYMBOL
       /\ (Ingesting /\ Blocked) =>
             /\ open_trades' = open_trades
             /\ dedup_key(Head(evts)) \in Keys(dedup')
             /\ offset' = offset
       /\ \A id \in DOMAIN open_trades' :
             NewlyPlanned(id) => dedup_key(Head(evts)) \notin Keys(dedup)
       /\ (pc = "plan" /\ pc' = "save") =>
             /\ evts' = <<>>
             /\ dedup' = dedup
             /\ offset' = offset
       /\ restarts' = restarts => offset' >= offset]_vars

\* An event was blocked by a trade on its symbol: its key is on the dedup
\* list and has no trade, the trade that blocked it has been cancelled since,
\* and the loop, never restarted, is about to read again with the cursor at
\* the end of the file.
C35_Witness ==
    /\ pc = "read"
    /\ restarts = 0
    /\ offset = Len(signals)
    /\ \E i \in DOMAIN dedup :
          /\ TradesOf(dedup[i]) = {}
          /\ \E id \in DOMAIN open_trades :
                /\ open_trades[id].symbol = dedup[i][2]
                /\ open_trades[id].status = "CANCELED"
          /\ NonTerminal(open_trades, dedup[i][2]) = {}


\* The zone bounds of an event are ordered.
ZonesOrdered(evt) == evt.lower[1] <= evt.lower[2] /\ evt.upper[1] <= evt.upper[2]

\* C36: a trade planned from an event with ordered zone bounds has, as
\* stored, sl < entry < tp1 <= tp2 when LONG and tp2 <= tp1 < entry < sl when
\* SHORT, in either entry mode, the zones apart, touching or one step apart.
C36_LevelsOrdered ==
    [][\A id \in DOMAIN open_trades' :
          (NewlyPlanned(id) /\ ZonesOrdered(Head(evts))) =>
             LET tr == open_trades'[id]
             IN  IF tr.side = "LONG"
                 THEN tr.sl < tr.entry /\ tr.entry < tr.tp1 /\ tr.tp1 <= tr.tp2
                 ELSE tr.tp2 <= tr.tp1 /\ tr.tp1 < tr.entry /\ tr.entry < tr.sl]_vars


(***************************************************************************)
(* Properties of the targets and of the breakeven stop                     *)
(***************************************************************************)

\* Breakeven on TP1, stop fills capped at the stop, no breakeven buffer.
BreakevenConfig ==
    /\ MOVE_SL_TO_BE_ON_TP1
    /\ STOP_FILL_MODE = "CAP"
    /\ BE_BUFFER_PCT.n = 0

\* What the TP1 close of a trade added to its pnl_usdt (line 494).
Tp1Increment(tr) == pnl_for_move(tr.side, tr.filled_entry, tr.tp1, tr.tp1_qty_closed)

C38_Tp1BeforeTp2 ==
    [][\A id \in TradeIds :
          LET tr  == open_trades[id]
              new == open_trades'[id]
          IN  /\ (/\ Ticking(id)
                  /\ Filled(tr)
                  /\ ~tr.tp1_hit
                  /\ ~stop_triggered(tr.side, tr.sl, TickPx(id))
                  /\ tp2_triggered(tr.side, tr.tp2, TickPx(id))) =>
                     /\ new.tp1_hit
                     /\ new.close_reason # "TP2"
                     /\ new.tp1_qty_closed > 0
                     /\ new.pnl_usdt = tr.pnl_usdt
                           + pnl_for_move(tr.side, tr.filled_entry, tr.tp1, new.tp1_qty_closed)
                     /\ new.filled_qty = tr.filled_qty - new.tp1_qty_closed
                     /\ (TP1_CLOSE_FRAC.n < TP1_CLOSE_FRAC.d) =>
                           /\ new.status = "OPEN"
                           /\ new.filled_qty > 0
                           /\ equity' = equity
                           /\ out_rows' = out_rows
              /\ (new.close_reason = "TP2" /\ tr.close_reason # "TP2") =>
                     /\ Ticking(id)
                     /\ tr.tp1_hit
                     /\ tp2_triggered(tr.side, tr.tp2, TickPx(id))
              /\ (/\ Ticking(id)
                  /\ Filled(tr)
                  /\ tr.tp1_hit
                  /\ stop_triggered(tr.side, tr.sl, TickPx(id))) =>
                     /\ new.close_reason = "SL"
                     /\ new.pnl_usdt = tr.pnl_usdt
                           + pnl_for_move(tr.side, tr.filled_entry,
                                          stop_fill_price(tr, TickPx(id)), tr.filled_qty)]_vars

\* The first tick of a filled trade was at or beyond TP2 and took the TP1
\* part only; a later tick stopped the rest out at the relocated stop.
C38_Witness ==
    \E id \in TradeIds :
        LET tr == open_trades[id]
        IN  /\ born[id] = "FILLED"
            /\ Known(hist[id])
            /\ Len(hist[id]) >= 2
            /\ tp2_triggered(tr.side, tr.tp2, hist[id][1])
            /\ tr.tp1_hit
            /\ tr.filled_qty > 0
            /\ tr.close_reason = "SL"
            /\ tr.sl = tr.filled_entry
            /\ stop_triggered(tr.side, tr.sl, Last(hist[id]))


(***************************************************************************)
(* Crash and restart of the tick loop                                      *)
(***************************************************************************)

\* The process dies at any point of the loop and is started again: main()
\* loads equity and open_trades from the state file (lines 373-379) and
\* enters the loop; the trade log and table keep the rows appended so far.
CrashRestart ==
    /\ restarts < MaxRestarts
    /\ restarts' = restarts + 1
    /\ open_trades' = state_file.open_trades
    /\ equity' = state_file.equity
    /\ px_map' = <<>>
    /\ todo' = <<>>
    /\ pc' = "fetch"
    /\ UNCHANGED <<config, alerts, calls, now, out_rows, state_file, hist, born,
                   ENTRY_PRICE_MODE, signals, offset, dedup, evts, tmp_file, source, evicted>>

\* The tick loop under the default configuration, with crashes.
CrashInit ==
    /\ Init
    /\ TP1_CLOSE_FRAC = [n |-> 1, d |-> 2]
    /\ MOVE_SL_TO_BE_ON_TP1
    /\ STOP_FILL_MODE = "CAP"
    /\ BE_BUFFER_PCT = [n |-> 0, d |-> 1]

CrashNext == Next \/ CrashRestart

CrashSpec == CrashInit /\ [][CrashNext]_vars

\* The rows of the trade log and table for trade id.
RowsOf(id) == {i \in DOMAIN out_rows : out_rows[i].trade_id = id}

\* C39: whatever crash and restart happens, the trade log and table hold at
\* most one row per trade_id, and the equity of the state file is the
\* starting equity plus the PnL of each trade the file records as CLOSED,
\* once.
C39_OneTerminalRecord ==
    /\ \A id \in TradeIds : Cardinality(RowsOf(id)) <= 1
    /\ state_file.equity = START_EQUITY + ClosedPnl(state_file.open_trades, TradeIds)


(***************************************************************************)
(* The signal loop writing a line while the execution loop reads the file  *)
(***************************************************************************)

\* alerts.py:107-108 seen from a reader while the write is half done: the
\* first part of the line of an event is in the file, without its newline.
AppendPart ==
    /\ Len(signals) + 1 < MaxLog
    /\ ~Dangling
    /\ \E e \in {x \in source : IsEvent(x)} : signals' = Append(signals, FirstPart(e))
    /\ UNCHANGED <<config, alerts, calls, open_trades, equity, px_map, todo, pc, now, out_rows,
                   state_file, hist, born, ENTRY_PRICE_MODE, offset, dedup, evts,
                   tmp_file, source, evicted, restarts>>

\* The rest of that line reaches the file, newline included.
AppendRest ==
    /\ Dangling
    /\ signals' = Append(signals, RestPart(signals[Len(signals)].of))
    /\ UNCHANGED <<config, alerts, calls, open_trades, equity, px_map, todo, pc, now, out_rows,
                   state_file, hist, born, ENTRY_PRICE_MODE, offset, dedup, evts,
                   tmp_file, source, evicted, restarts>>

\* A first start on a signal file the signal loop appends events of two
\* identities to; the process is not restarted.
RaceInit ==
    /\ DefaultConfig
    /\ NoAlerts
    /\ NoCalls
    /\ ENTRY_PRICE_MODE = "ZONE"
    /\ open_trades = <<>>
    /\ equity = START_EQUITY
    /\ px_map = <<>>
    /\ todo = <<>>
    /\ pc = "read"
    /\ now = 0
    /\ out_rows = <<>>
    /\ state_file = NoFile
    /\ hist = <<>>
    /\ born = <<>>
    /\ signals = <<>>
    /\ offset = 0
    /\ dedup = <<>>
    /\ evts = <<>>
    /\ tmp_file = NoFile
    /\ source = {e \in ExecEvents : e.symbol = "ETHUSDT"}
    /\ evicted = {}
    /\ restarts = 0

RaceNext ==
    \/ AppendEvent
    \/ AppendPart
    \/ AppendRest
    \/ ReadSignals
    \/ IngestEvent
    \/ TickPass
    \/ WriteTmp
    \/ ReplaceFile
    \/ PollSleep

RaceSpec == RaceInit /\ [][RaceNext]_vars

\* A line of the file ends here: a whole line, or the rest of one.
EndsLine(p) == IsEvent(p) \/ IsTail(p)

\* The event of the line that ends at p.
LineOf(p) == IF IsEvent(p) THEN p ELSE p.of

\* The events whose lines end after the cursor, in file order.
Arrived ==
    LET ends == SelectSeq(Unread, EndsLine)
    IN  [k \in 1..Len(ends) |-> LineOf(ends[k])]

\* C40: whatever the appends of the signal loop and the reads of the
\* execution loop interleave to, a read hands to the dedup and planning step
\* each event whose line is complete in the file and ends after the cursor,
\* once and in order, the line having been read half written before or not;
\* and the cursor passes no line but these and the malformed ones.
C40_EveryLineDelivered ==
    [][Reading => evts' = Arrived]_vars

====
